---- MODULE Spec2Model ----
(***************************************************************************)
(* A model of the ThreadForge worker pool                                  *)
(* (packages/react-native-threadforge/cpp/ThreadPool.{h,cpp}).             *)
(*                                                                         *)
(* Every action is one critical section (or one lock-free statement        *)
(* group) of the C++ code; the threads of the program (submitters,         *)
(* workers, a canceller, a control thread) interleave between them.        *)
(***************************************************************************)
EXTENDS Integers, FiniteSets, Sequences, TLC

\* ------------------------------------------------------------------ bounds
MaxTasks == 2          \* number of submitTask calls (one Task object each)
MaxWorkers == 2        \* number of worker threads that can exist at once
MaxLimit == 1          \* largest queue limit passed to setQueueLimit
MaxSteps == 3          \* largest number of steps of a pipeline
MaxIterations == 2     \* largest `iterations` of a HEAVY_LOOP step

\* ------------------------------------------------------- program constants
LOW == 0
NORMAL == 1
HIGH == 2

TaskIds == 1..MaxTasks
WorkerIds == 1..MaxWorkers
Ids == {"a", "b"}
Priorities == {LOW, NORMAL, HIGH}
Limits == 0..MaxLimit
NoTask == 0

\* ------------------------------------------------------------- TaskResult
makeSuccessResult(valueJson) ==
    [success |-> TRUE, cancelled |-> FALSE, valueJson |-> valueJson,
     errorMessage |-> "", errorStack |-> ""]

makeErrorResult(message) ==
    [success |-> FALSE, cancelled |-> FALSE, valueJson |-> "",
     errorMessage |-> message, errorStack |-> ""]

\* makeCancelledResult without the cancelled flag.
makeCancelledResultUnflagged ==
    [success |-> FALSE, cancelled |-> FALSE, valueJson |-> "",
     errorMessage |-> "Task cancelled", errorStack |-> ""]

makeCancelledResult ==
    [success |-> FALSE, cancelled |-> TRUE, valueJson |-> "",
     errorMessage |-> "Task cancelled", errorStack |-> ""]

\* A default-constructed TaskResult (TaskResult.h, member initialisers).
EmptyResult ==
    [success |-> FALSE, cancelled |-> FALSE, valueJson |-> "",
     errorMessage |-> "", errorStack |-> ""]

\* ------------------------------------------------------------------ state
VARIABLES
    workers,          \* thread ids held by the `workers` vector
    tasks,            \* the priority queue (set of task handles)
    taskMap,          \* id -> task handle (NoTask: no entry)
    stop, paused,
    pendingTasks, activeTasks,
    sequenceCounter,
    queueLimit,
    task,             \* task handle -> Task object
    spc, sret,        \* submitTask call i: position, returned TaskResult
    wpc, wtask, wres, \* worker thread: position, `task`, `taskResult`
    cpc, cref, cret,  \* cancelTask call: position, `taskRef`, last value returned
    ctl, oldWorkers, threads,  \* control thread: position, setConcurrency locals
    scret,            \* how the last setConcurrency call ended
    \* history (ghost) variables, never read by the program's actions
    ran,              \* tasks whose work body was invoked
    writes,           \* task handle -> number of writes to its result slot
    markedQueued,     \* tasks whose cancelled flag was set while in the queue
    dequeued,         \* tasks popped from the queue by a worker
    queuedWith,       \* task handle -> tasks in the queue when it was pushed
    limitHeld,        \* the limit in force was installed with pending <= limit
    accepted,         \* tasks that were pushed on the queue
    raised,           \* tasks whose work body raised
    pauseRequested,   \* pause() was called and resume() was not called since
    downBefore,       \* the last shutdown() call began on a pool already shut down
    requested,        \* the argument of the last setConcurrency call that passed the test
    \* the composite runnable of CustomTaskRegistry::createTask
    name,             \* the pipeline's name
    steps,            \* the instantiated step descriptors, in definition order
    ppc,              \* position of the runnable
    index,            \* loop variable
    accumulated,      \* progress of the steps that have returned
    results,          \* the step summaries so far
    reported,         \* how many values the running step has reported
    summary,          \* what the runnable returned
    emitted,          \* history: the values delivered to the progress sink
    calls,            \* history: the step indices in the order they were invoked
    failedStep,       \* history: the index of the step that raised (-1: none)
    \* CustomTaskRegistry
    tasks_,           \* name -> the steps of the definition stored under it
    mutex_,           \* "free", or the call that holds the registry's lock
    rpc,              \* createTask call: position
    cname,            \* createTask call: its `name` argument
    payloadJson,      \* createTask call: its `payloadJson` argument
    definition,       \* createTask call: its local copy of the definition
    cerr,             \* what the createTask call threw (<<>>: nothing)
    rcall,            \* the arguments of the last registerTask call
    regret,           \* how the last registerTask call ended
    \* a second control thread calling setConcurrency
    ctlB,             \* position of the second control thread
    oldWorkersB, threadsB,  \* its setConcurrency locals
    requestedB,       \* history: the argument of its call
    lastB             \* history: its call returned after the first thread's

poolVars == <<workers, tasks, taskMap, stop, paused, pendingTasks, activeTasks,
              sequenceCounter, queueLimit>>
submitVars == <<spc, sret>>
workerVars == <<wpc, wtask, wres>>
cancelVars == <<cpc, cref, cret>>
ctlVars == <<ctl, oldWorkers, threads, scret>>
ghostVars == <<ran, writes, markedQueued, dequeued, queuedWith, limitHeld,
               accepted, raised, pauseRequested, downBefore, requested>>
regVars == <<tasks_, mutex_, rpc, cname, payloadJson, definition, cerr, rcall, regret>>
peerVars == <<ctlB, oldWorkersB, threadsB, requestedB, lastB>>
pipeVars == <<name, steps, ppc, index, accumulated, results, reported,
              summary, emitted, calls, failedStep, regVars, peerVars>>
vars == <<poolVars, task, submitVars, workerVars, cancelVars, ctlVars, ghostVars,
          pipeVars>>

\* A Task object before its submit call constructs it.
NullTask ==
    [id |-> "", priority |-> LOW, sequence |-> 0, cancelled |-> FALSE,
     finished |-> FALSE, hasResult |-> FALSE, result |-> EmptyResult]

\* Task::Task (ThreadPool.h): the member initialisers and the constructor.
NewTask(taskId, prio, seq) ==
    [id |-> taskId, priority |-> prio, sequence |-> seq, cancelled |-> FALSE,
     finished |-> FALSE, hasResult |-> FALSE, result |-> EmptyResult]

\* TaskComparator with the sequence test turned round (last in, first out).
TaskComparatorLifo(lhs, rhs) ==
    IF task[lhs].priority = task[rhs].priority
    THEN task[lhs].sequence < task[rhs].sequence
    ELSE task[lhs].priority < task[rhs].priority

\* TaskComparator with the priority test turned round (LOW first).
TaskComparatorLowFirst(lhs, rhs) ==
    IF task[lhs].priority = task[rhs].priority
    THEN task[lhs].sequence > task[rhs].sequence
    ELSE task[lhs].priority > task[rhs].priority

\* TaskComparator::operator(): TRUE when lhs orders before rhs, that is,
\* when rhs is nearer the top of the std::priority_queue.
TaskComparator(lhs, rhs) ==
    IF task[lhs].priority = task[rhs].priority
    THEN task[lhs].sequence > task[rhs].sequence
    ELSE task[lhs].priority < task[rhs].priority

\* tasks.top(): the element no other element is ordered after.
Top == CHOOSE t \in tasks : \A u \in tasks \ {t} : ~TaskComparator(t, u)

\* ThreadPool::ThreadPool: max(1, numThreads) workers, everything else from
\* the member initialisers.
InitPool(numThreads) ==
    /\ workers = 1..(IF numThreads < 1 THEN 1 ELSE numThreads)
    /\ tasks = {}
    /\ taskMap = [k \in Ids |-> NoTask]
    /\ stop = FALSE
    /\ paused = FALSE
    /\ pendingTasks = 0
    /\ activeTasks = 0
    /\ sequenceCounter = 0
    /\ queueLimit = 0
    /\ task = [i \in TaskIds |-> NullTask]
    /\ spc = [i \in TaskIds |-> "idle"]
    /\ sret = [i \in TaskIds |-> EmptyResult]
    /\ wpc = [w \in WorkerIds |-> IF w \in workers THEN "ready" ELSE "none"]
    /\ wtask = [w \in WorkerIds |-> NoTask]
    /\ wres = [w \in WorkerIds |-> EmptyResult]
    /\ cpc = "idle"
    /\ cref = NoTask
    /\ cret = "none"
    /\ ctl = "idle"
    /\ oldWorkers = {}
    /\ threads = 0
    /\ scret = "none"
    /\ ran = {}
    /\ writes = [i \in TaskIds |-> 0]
    /\ markedQueued = {}
    /\ dequeued = {}
    /\ queuedWith = [i \in TaskIds |-> {}]
    /\ limitHeld = TRUE
    /\ accepted = {}
    /\ raised = {}
    /\ pauseRequested = FALSE
    /\ downBefore = FALSE
    /\ requested = 0

\* No composite runnable has been created.
NoPipeline ==
    /\ name = ""
    /\ steps = <<>>
    /\ ppc = "none"
    /\ index = 0
    /\ accumulated = 0
    /\ results = <<>>
    /\ reported = 0
    /\ summary = ""
    /\ emitted = <<>>
    /\ calls = <<>>
    /\ failedStep = -1

\* CustomTaskRegistry as constructed: no definition, no call made.
EmptyRegistry ==
    /\ tasks_ = [x \in {} |-> <<>>]
    /\ mutex_ = "free"
    /\ rpc = "idle"
    /\ cname = ""
    /\ payloadJson = [t |-> "empty"]
    /\ definition = <<>>
    /\ cerr = <<>>
    /\ rcall = <<>>
    /\ regret = "none"

\* The second control thread before it calls anything.
NoPeer ==
    /\ ctlB = "idle"
    /\ oldWorkersB = {}
    /\ threadsB = 0
    /\ requestedB = 0
    /\ lastB = FALSE

Init ==
    \E numThreads \in 0..MaxWorkers :
        InitPool(numThreads) /\ NoPipeline /\ EmptyRegistry /\ NoPeer

\* ------------------------------------------------------------ submitTask
\* The admission test of submitTask (ThreadPool.cpp lines 111-112).
LimitReachedOff(limit, pending) == limit > 0 /\ pending > limit
LimitReached(limit, pending) == limit > 0 /\ pending >= limit

\* condition.notify_one(): one sleeping worker, if any, becomes runnable.
\* Which one is the scheduler's choice.
NotifyOne(pcs) ==
    IF \E w \in WorkerIds : pcs[w] = "sleep"
    THEN {[pcs EXCEPT ![w] = "ready"] : w \in {x \in WorkerIds : pcs[x] = "sleep"}}
    ELSE {pcs}

\* A notify_all() that reaches nobody.
NotifyNobody(pcs) == pcs

\* condition.notify_all(): every sleeping worker becomes runnable.
NotifyAll(pcs) == [w \in WorkerIds |-> IF pcs[w] = "sleep" THEN "ready" ELSE pcs[w]]

\* The ids a new call may carry.  Ids are only ever compared for equality,
\* so the first call's id is fixed and runs that differ by a renaming of
\* the ids are explored once.
SubmitIds == IF \A j \in TaskIds : spc[j] = "idle" THEN {"a"} ELSE Ids

\* Lines 102-103: the sequence number is drawn and the Task constructed
\* before the pool lock is taken.  Call i constructs task handle i.
SubmitSeq(i, taskId, priority) ==
    /\ spc[i] = "idle"
    /\ \A j \in TaskIds : j < i => spc[j] # "idle"
    /\ taskId \in SubmitIds
    /\ task' = [task EXCEPT ![i] = NewTask(taskId, priority, sequenceCounter)]
    /\ sequenceCounter' = sequenceCounter + 1
    /\ spc' = [spc EXCEPT ![i] = "lock"]
    /\ UNCHANGED <<workers, tasks, taskMap, stop, paused, pendingTasks,
                   activeTasks, queueLimit, sret, workerVars, cancelVars,
                   ctlVars, ghostVars, pipeVars>>

\* SubmitLock without the stop test of lines 106-109.
SubmitLockIgnoresStop(i) ==
    /\ spc[i] = "lock"
    /\ IF LimitReached(queueLimit, pendingTasks)
       THEN /\ sret' = [sret EXCEPT ![i] = makeErrorResult("ThreadPool queue limit reached")]
            /\ spc' = [spc EXCEPT ![i] = "ret"]
            /\ UNCHANGED <<tasks, taskMap, pendingTasks, queuedWith, accepted, wpc>>
       ELSE /\ tasks' = tasks \cup {i}
            /\ taskMap' = [taskMap EXCEPT ![task[i].id] = i]
            /\ pendingTasks' = pendingTasks + 1
            /\ queuedWith' = [queuedWith EXCEPT ![i] = tasks]
            /\ accepted' = accepted \cup {i}
            /\ wpc' \in NotifyOne(wpc)
            /\ spc' = [spc EXCEPT ![i] = "wait"]
            /\ UNCHANGED sret
    /\ UNCHANGED <<workers, stop, paused, activeTasks, sequenceCounter,
                   queueLimit, task, wtask, wres, cancelVars, ctlVars,
                   ran, writes, markedQueued, dequeued, limitHeld, raised,
                   pauseRequested, downBefore,
                   requested, pipeVars>>

\* Lines 105-121, the critical section of queueMutex and the notify_one
\* that follows the unlock: reject when stopped, reject when the limit is
\* reached, otherwise push, map, count and wake one sleeping worker.  (The
\* notification touches the condition variable only, and a worker that goes
\* to sleep between the unlock and the notification has seen the push.)
SubmitLock(i) ==
    /\ spc[i] = "lock"
    /\ IF stop
       THEN /\ sret' = [sret EXCEPT ![i] = makeErrorResult("ThreadPool is stopped")]
            /\ spc' = [spc EXCEPT ![i] = "ret"]
            /\ UNCHANGED <<tasks, taskMap, pendingTasks, queuedWith, accepted, wpc>>
       ELSE IF LimitReached(queueLimit, pendingTasks)
       THEN /\ sret' = [sret EXCEPT ![i] = makeErrorResult("ThreadPool queue limit reached")]
            /\ spc' = [spc EXCEPT ![i] = "ret"]
            /\ UNCHANGED <<tasks, taskMap, pendingTasks, queuedWith, accepted, wpc>>
       ELSE /\ tasks' = tasks \cup {i}
            /\ taskMap' = [taskMap EXCEPT ![task[i].id] = i]
            /\ pendingTasks' = pendingTasks + 1
            /\ queuedWith' = [queuedWith EXCEPT ![i] = tasks]
            /\ accepted' = accepted \cup {i}
            /\ wpc' \in NotifyOne(wpc)
            /\ spc' = [spc EXCEPT ![i] = "wait"]
            /\ UNCHANGED sret
    /\ UNCHANGED <<workers, stop, paused, activeTasks, sequenceCounter,
                   queueLimit, task, wtask, wres, cancelVars, ctlVars,
                   ran, writes, markedQueued, dequeued, limitHeld, raised,
                   pauseRequested, downBefore,
                   requested, pipeVars>>

\* The value submitTask returns once `finished` is set (lines 128-137).
SubmitResult(t) ==
    IF ~task[t].hasResult
    THEN IF task[t].cancelled
         THEN [makeErrorResult("Task cancelled") EXCEPT !.cancelled = TRUE]
         ELSE makeErrorResult("ThreadForge task completed without result")
    ELSE task[t].result

\* Lines 123-137: the caller blocks on the task's completionCv until
\* `finished`, then returns the result.
SubmitReturn(i) ==
    /\ spc[i] = "wait"
    /\ task[i].finished
    /\ sret' = [sret EXCEPT ![i] = SubmitResult(i)]
    /\ spc' = [spc EXCEPT ![i] = "ret"]
    /\ UNCHANGED <<poolVars, task, workerVars, cancelVars, ctlVars, ghostVars,
                   pipeVars>>

\* ----------------------------------------------------------- workerThread
\* The wait predicate (line 26).
WaitPredicate == stop \/ (~paused /\ tasks # {})

\* Line 37: the popped task is skipped when its cancelled flag is set.
NeverShortCircuits(t) == FALSE
ShortCircuits(t) == task[t].cancelled

\* Lines 25-27 with the predicate false: the worker releases the lock and
\* sleeps on `condition`.
WorkerSleep(w) ==
    /\ wpc[w] = "ready"
    /\ ~WaitPredicate
    /\ wpc' = [wpc EXCEPT ![w] = "sleep"]
    /\ UNCHANGED <<poolVars, task, submitVars, wtask, wres, cancelVars, ctlVars, ghostVars,
                   pipeVars>>

\* A spurious wake-up of condition.wait: the predicate is evaluated again.
WorkerSpurious(w) ==
    /\ wpc[w] = "sleep"
    /\ wpc' = [wpc EXCEPT ![w] = "ready"]
    /\ UNCHANGED <<poolVars, task, submitVars, wtask, wres, cancelVars, ctlVars, ghostVars,
                   pipeVars>>

\* WorkerExit with the test of line 29 reduced to `stop`: the thread returns
\* although tasks are queued.
WorkerExitLeavesQueue(w) ==
    /\ wpc[w] = "ready"
    /\ WaitPredicate
    /\ stop
    /\ wpc' = [wpc EXCEPT ![w] = "exited"]
    /\ UNCHANGED <<poolVars, task, submitVars, wtask, wres, cancelVars, ctlVars, ghostVars,
                   pipeVars>>

\* Lines 29-31: stop requested and nothing queued: the thread returns.
WorkerExit(w) ==
    /\ wpc[w] = "ready"
    /\ WaitPredicate
    /\ stop /\ tasks = {}
    /\ wpc' = [wpc EXCEPT ![w] = "exited"]
    /\ UNCHANGED <<poolVars, task, submitVars, wtask, wres, cancelVars, ctlVars, ghostVars,
                   pipeVars>>

\* Lines 33-50, in the critical section that evaluated the predicate: pop
\* the top task; a cancelled one is finalized as Cancelled and the loop
\* continues, any other is counted active and its body is invoked.
\* (With stop set and the pool paused, tasks.top() of a non-empty queue is
\* still taken: the predicate is `stop || ...`.)
WorkerDequeue(w) ==
    /\ wpc[w] = "ready"
    /\ WaitPredicate
    /\ ~(stop /\ tasks = {})
    /\ LET t == Top IN
       /\ tasks' = tasks \ {t}
       /\ pendingTasks' = pendingTasks - 1
       /\ dequeued' = dequeued \cup {t}
       /\ IF ShortCircuits(t)
          THEN /\ taskMap' = [taskMap EXCEPT ![task[t].id] = NoTask]
               /\ task' = [task EXCEPT ![t].result = makeCancelledResult,
                                       ![t].hasResult = TRUE,
                                       ![t].finished = TRUE]
               /\ writes' = [writes EXCEPT ![t] = @ + 1]
               /\ UNCHANGED <<activeTasks, wpc, wtask, ran>>
          ELSE /\ activeTasks' = activeTasks + 1
               /\ wpc' = [wpc EXCEPT ![w] = "run"]
               /\ wtask' = [wtask EXCEPT ![w] = t]
               /\ ran' = ran \cup {t}
               /\ UNCHANGED <<taskMap, task, writes>>
    /\ UNCHANGED <<workers, stop, paused, sequenceCounter, queueLimit,
                   submitVars, wres, cancelVars, ctlVars, markedQueued,
                   queuedWith, limitHeld, accepted, raised, pauseRequested,
                   downBefore,
                   requested, pipeVars>>

\* What the work body does: it returns a result or it raises.  A body that
\* polls the cancellation predicate and returns early is a body that returns.
Outcomes == {"ok", "raise"}

\* LocalResult with a catch block that builds no Error result: taskResult
\* stays as it was default-constructed.
LocalResultNoError(outcome) ==
    IF outcome = "raise"
    THEN EmptyResult
    ELSE makeSuccessResult("value")

\* Lines 54-70: the local taskResult after the try block; every exception
\* is caught and turned into an Error result.
LocalResult(outcome) ==
    IF outcome = "raise"
    THEN makeErrorResult("what")
    ELSE makeSuccessResult("value")

\* WorkerPost without the erase of line 74: the id stays in the map.
WorkerPostKeepsEntry(w, outcome) ==
    /\ wpc[w] = "run"
    /\ wres' = [wres EXCEPT ![w] = LocalResult(outcome)]
    /\ activeTasks' = activeTasks - 1
    /\ wpc' = [wpc EXCEPT ![w] = "fin"]
    /\ raised' = IF outcome = "raise" THEN raised \cup {wtask[w]} ELSE raised
    /\ UNCHANGED <<workers, tasks, taskMap, stop, paused, pendingTasks,
                   sequenceCounter, queueLimit, task, submitVars, wtask,
                   cancelVars, ctlVars, ran, writes, markedQueued, dequeued,
                   queuedWith, limitHeld, accepted, pauseRequested, downBefore,
                   requested, pipeVars>>

\* WorkerPost with an erase that checks the entry: the id's entry is removed
\* only when it holds this worker's task.
WorkerPostErasesOwn(w, outcome) ==
    /\ wpc[w] = "run"
    /\ wres' = [wres EXCEPT ![w] = LocalResult(outcome)]
    /\ taskMap' = IF taskMap[task[wtask[w]].id] = wtask[w]
                  THEN [taskMap EXCEPT ![task[wtask[w]].id] = NoTask]
                  ELSE taskMap
    /\ activeTasks' = activeTasks - 1
    /\ wpc' = [wpc EXCEPT ![w] = "fin"]
    /\ raised' = IF outcome = "raise" THEN raised \cup {wtask[w]} ELSE raised
    /\ UNCHANGED <<workers, tasks, stop, paused, pendingTasks, sequenceCounter,
                   queueLimit, task, submitVars, wtask, cancelVars,
                   ctlVars, ran, writes, markedQueued, dequeued, queuedWith,
                   limitHeld, accepted, pauseRequested, downBefore,
                   requested, pipeVars>>

\* Lines 52-76: the body runs to its end outside every lock (it touches no
\* pool state), then, under queueMutex, the id is erased and the task
\* counted inactive.
WorkerPost(w, outcome) ==
    /\ wpc[w] = "run"
    /\ wres' = [wres EXCEPT ![w] = LocalResult(outcome)]
    /\ taskMap' = [taskMap EXCEPT ![task[wtask[w]].id] = NoTask]
    /\ activeTasks' = activeTasks - 1
    /\ wpc' = [wpc EXCEPT ![w] = "fin"]
    /\ raised' = IF outcome = "raise" THEN raised \cup {wtask[w]} ELSE raised
    /\ UNCHANGED <<workers, tasks, stop, paused, pendingTasks, sequenceCounter,
                   queueLimit, task, submitVars, wtask, cancelVars,
                   ctlVars, ran, writes, markedQueued, dequeued, queuedWith,
                   limitHeld, accepted, pauseRequested, downBefore,
                   requested, pipeVars>>

\* Lines 81-90: the result the worker stores when the task is not finished:
\* a cancellation that arrived during execution overrides the local result.
FinalResultNoOverride(t, local) == local
FinalResult(t, local) ==
    IF task[t].cancelled
    THEN [local EXCEPT !.cancelled = TRUE,
                       !.success = FALSE,
                       !.errorMessage = IF local.errorMessage = ""
                                        THEN "Task cancelled"
                                        ELSE local.errorMessage,
                       !.valueJson = ""]
    ELSE local

\* Lines 78-97: under the task's own mutex, store the result unless the task
\* is already finished, then notify the submitter and loop.
WorkerFinish(w) ==
    /\ wpc[w] = "fin"
    /\ LET t == wtask[w] IN
       IF ~task[t].finished
       THEN /\ task' = [task EXCEPT ![t].result = FinalResult(t, wres[w]),
                                    ![t].hasResult = TRUE,
                                    ![t].finished = TRUE]
            /\ writes' = [writes EXCEPT ![t] = @ + 1]
       ELSE UNCHANGED <<task, writes>>
    /\ wpc' = [wpc EXCEPT ![w] = "ready"]
    /\ wtask' = [wtask EXCEPT ![w] = NoTask]
    /\ wres' = [wres EXCEPT ![w] = EmptyResult]
    /\ UNCHANGED <<poolVars, submitVars, cancelVars, ctlVars, ran,
                   markedQueued, dequeued, queuedWith, limitHeld, accepted,
                   raised, pauseRequested, downBefore,
                   requested, pipeVars>>

\* ------------------------------------------------------------- cancelTask
\* taskMap.find(taskId) (line 144): the task held under the id, NoTask for
\* taskMap.end(); and a lookup that finds nothing.
FindNothing(taskId) == NoTask
Find(taskId) == taskMap[taskId]

\* CancelLookup that also takes a queued task out of the queue and the id
\* map and out of the pending count.
CancelLookupDequeues(taskId) ==
    /\ cpc = "idle"
    /\ IF Find(taskId) = NoTask
       THEN /\ cret' = "false"
            /\ UNCHANGED <<task, cpc, cref, markedQueued, tasks, taskMap, pendingTasks>>
       ELSE /\ cref' = Find(taskId)
            /\ UNCHANGED cret
            /\ task' = [task EXCEPT ![Find(taskId)].cancelled = TRUE]
            /\ cpc' = "fin"
            /\ markedQueued' = IF Find(taskId) \in tasks
                               THEN markedQueued \cup {Find(taskId)}
                               ELSE markedQueued
            /\ IF Find(taskId) \in tasks
               THEN /\ tasks' = tasks \ {Find(taskId)}
                    /\ taskMap' = [taskMap EXCEPT ![taskId] = NoTask]
                    /\ pendingTasks' = pendingTasks - 1
               ELSE UNCHANGED <<tasks, taskMap, pendingTasks>>
    /\ UNCHANGED <<workers, stop, paused, activeTasks, sequenceCounter, queueLimit,
                   submitVars, workerVars, ctlVars, ran, writes,
                   dequeued, queuedWith, limitHeld, accepted, raised,
                   pauseRequested, downBefore,
                   requested, pipeVars>>

\* Lines 141-150, under queueMutex: look the id up; when absent return
\* false, otherwise keep the reference and set its cancelled flag.
CancelLookup(taskId) ==
    /\ cpc = "idle"
    /\ IF Find(taskId) = NoTask
       THEN /\ cret' = "false"
            /\ UNCHANGED <<task, cpc, cref, markedQueued>>
       ELSE /\ cref' = Find(taskId)
            /\ UNCHANGED cret
            /\ task' = [task EXCEPT ![Find(taskId)].cancelled = TRUE]
            /\ cpc' = "fin"
            /\ markedQueued' = IF Find(taskId) \in tasks
                               THEN markedQueued \cup {Find(taskId)}
                               ELSE markedQueued
    /\ UNCHANGED <<poolVars, submitVars, workerVars, ctlVars, ran, writes,
                   dequeued, queuedWith, limitHeld, accepted, raised,
                   pauseRequested, downBefore,
                   requested, pipeVars>>

\* Lines 152-163, under the task's own mutex: write the Cancelled result
\* unless a result exists, set finished, notify the submitter and all
\* workers, return true.
CancelFinish ==
    /\ cpc = "fin"
    /\ IF ~task[cref].hasResult
       THEN /\ task' = [task EXCEPT ![cref].result = makeCancelledResult,
                                    ![cref].hasResult = TRUE,
                                    ![cref].finished = TRUE]
            /\ writes' = [writes EXCEPT ![cref] = @ + 1]
       ELSE /\ task' = [task EXCEPT ![cref].finished = TRUE]
            /\ UNCHANGED writes
    /\ wpc' = NotifyAll(wpc)
    /\ cpc' = "idle"
    /\ cref' = NoTask
    /\ cret' = "true"
    /\ UNCHANGED <<poolVars, submitVars, wtask, wres, ctlVars, ran,
                   markedQueued, dequeued, queuedWith, limitHeld, accepted,
                   raised, pauseRequested, downBefore,
                   requested, pipeVars>>

\* ----------------------------------------------------------- pause/resume
\* Lines 166-169.
Pause ==
    /\ ctl = "idle"
    /\ paused' = TRUE
    /\ pauseRequested' = TRUE
    /\ UNCHANGED <<workers, tasks, taskMap, stop, pendingTasks, activeTasks,
                   sequenceCounter, queueLimit, task, submitVars, workerVars,
                   cancelVars, ctlVars, ran, writes, markedQueued, dequeued,
                   queuedWith, limitHeld, accepted, raised, downBefore,
                   requested, pipeVars>>

\* Lines 171-177: paused is cleared under the lock, then notify_all.
Resume ==
    /\ ctl = "idle"
    /\ paused' = FALSE
    /\ wpc' = NotifyAll(wpc)
    /\ pauseRequested' = FALSE
    /\ UNCHANGED <<workers, tasks, taskMap, stop, pendingTasks, activeTasks,
                   sequenceCounter, queueLimit, task, submitVars, wtask, wres,
                   cancelVars, ctlVars, ran, writes, markedQueued, dequeued,
                   queuedWith, limitHeld, accepted, raised, downBefore,
                   requested, pipeVars>>

\* ---------------------------------------------------------- setQueueLimit
\* Lines 232-234: an atomic store, no lock.
SetQueueLimit(limit) ==
    /\ ctl = "idle"
    /\ queueLimit' = limit
    /\ limitHeld' = (limit = 0 \/ pendingTasks <= limit)
    /\ UNCHANGED <<workers, tasks, taskMap, stop, paused, pendingTasks,
                   activeTasks, sequenceCounter, task, submitVars, workerVars,
                   cancelVars, ctlVars, ran, writes, markedQueued, dequeued,
                   queuedWith, accepted, raised, pauseRequested, downBefore,
                   requested, pipeVars>>

\* --------------------------------------------------------------- shutdown
\* The pool as lines 250-260 of shutdown leave it: no workers, an empty
\* queue and id map, zero counters, both flags clear.
IsShutDown ==
    /\ workers = {}
    /\ tasks = {}
    /\ taskMap = [k \in Ids |-> NoTask]
    /\ pendingTasks = 0
    /\ activeTasks = 0
    /\ ~stop
    /\ ~paused

\* Lines 237-243: stop is set and paused cleared under the lock, then
\* notify_all.
ShutdownBegin ==
    /\ ctl = "idle"
    /\ stop' = TRUE
    /\ paused' = FALSE
    /\ wpc' = NotifyAll(wpc)
    /\ ctl' = "sdJoin"
    /\ downBefore' = IsShutDown
    /\ UNCHANGED <<workers, tasks, taskMap, pendingTasks, activeTasks,
                   sequenceCounter, queueLimit, task, submitVars, wtask, wres,
                   cancelVars, oldWorkers, threads, scret, ran, writes, markedQueued, dequeued,
                   queuedWith, limitHeld, accepted, raised, pauseRequested,
                   requested, pipeVars>>

\* Lines 245-250: every worker of the vector is joined (the call blocks
\* until each has returned), then the vector is cleared.
ShutdownJoin ==
    /\ ctl = "sdJoin"
    /\ \A w \in workers : wpc[w] = "exited"
    /\ wpc' = [w \in WorkerIds |-> IF w \in workers THEN "none" ELSE wpc[w]]
    /\ workers' = {}
    /\ ctl' = "sdClear"
    /\ UNCHANGED <<tasks, taskMap, stop, paused, pendingTasks, activeTasks,
                   sequenceCounter, queueLimit, task, submitVars, wtask, wres,
                   cancelVars, oldWorkers, threads, scret, ghostVars,
                   pipeVars>>

\* ShutdownClear without lines 254-256: the queue, the map and the pending
\* count are left as they are.
ShutdownClearLeavesQueue ==
    /\ ctl = "sdClear"
    /\ activeTasks' = 0
    /\ stop' = FALSE
    /\ paused' = FALSE
    /\ ctl' = "idle"
    /\ UNCHANGED <<workers, tasks, taskMap, pendingTasks, sequenceCounter,
                   queueLimit, task, submitVars, workerVars, cancelVars,
                   oldWorkers, threads, scret, ghostVars, pipeVars>>

\* ShutdownClear without line 258: the stop flag stays set.
ShutdownClearKeepsStop ==
    /\ ctl = "sdClear"
    /\ tasks' = {}
    /\ taskMap' = [k \in Ids |-> NoTask]
    /\ pendingTasks' = 0
    /\ activeTasks' = 0
    /\ paused' = FALSE
    /\ ctl' = "idle"
    /\ UNCHANGED <<workers, stop, sequenceCounter, queueLimit, task, submitVars,
                   workerVars, cancelVars, oldWorkers, threads, scret,
                   ghostVars, pipeVars>>

\* Lines 252-260: the queue, the map, the counters and the flags are reset.
ShutdownClear ==
    /\ ctl = "sdClear"
    /\ tasks' = {}
    /\ taskMap' = [k \in Ids |-> NoTask]
    /\ pendingTasks' = 0
    /\ activeTasks' = 0
    /\ stop' = FALSE
    /\ paused' = FALSE
    /\ ctl' = "idle"
    /\ UNCHANGED <<workers, sequenceCounter, queueLimit, task, submitVars,
                   workerVars, cancelVars, oldWorkers, threads, scret,
                   ghostVars, pipeVars>>

\* --------------------------------------------------------- setConcurrency
\* Lines 196-198: a request for zero threads is a request for one; and the
\* request taken as it comes.
ClampThreadsOff(n) == n
ClampThreads(n) == IF n = 0 THEN 1 ELSE n

\* The precondition test of setConcurrency (line 203), and the test with the
\* active count left out.
ResizeBlockedPendingOnly(pending, active) == pending > 0
ResizeBlocked(pending, active) == pending > 0 \/ active > 0

\* Lines 196-210: the request is clamped to at least 1; with tasks pending
\* or active the call throws and changes nothing; otherwise stop is set,
\* the workers are notified and the vector is swapped out.
SetConcurrencyBegin(n) ==
    /\ ctl = "idle"
    /\ IF ResizeBlocked(pendingTasks, activeTasks)
       THEN /\ scret' = "threw"
            /\ UNCHANGED <<workers, stop, paused, wpc, ctl, oldWorkers, threads,
                           requested>>
       ELSE /\ threads' = ClampThreads(n)
            /\ requested' = n
            /\ UNCHANGED scret
            /\ stop' = TRUE
            /\ paused' = FALSE
            /\ wpc' = NotifyAll(wpc)
            /\ oldWorkers' = workers
            /\ workers' = {}
            /\ ctl' = "scJoin"
    /\ UNCHANGED <<tasks, taskMap, pendingTasks, activeTasks, sequenceCounter,
                   queueLimit, task, submitVars, wtask, wres, cancelVars,
                   ran, writes, markedQueued, dequeued, queuedWith, limitHeld,
                   accepted, raised, pauseRequested, downBefore, pipeVars>>

\* Lines 212-216: the old workers are joined.
SetConcurrencyJoin ==
    /\ ctl = "scJoin"
    /\ \A w \in oldWorkers : wpc[w] = "exited"
    /\ wpc' = [w \in WorkerIds |-> IF w \in oldWorkers THEN "none" ELSE wpc[w]]
    /\ oldWorkers' = {}
    /\ ctl' = "scSpawn"
    /\ UNCHANGED <<poolVars, task, submitVars, wtask, wres, cancelVars,
                   threads, scret, ghostVars, pipeVars>>

\* Lines 218-225: stop and paused are cleared and `threads` workers spawned.
SetConcurrencySpawn ==
    /\ ctl = "scSpawn"
    /\ stop' = FALSE
    /\ paused' = FALSE
    /\ \E new \in SUBSET {w \in WorkerIds : wpc[w] = "none"} :
          /\ Cardinality(new) = threads
          /\ \A w \in new : \A x \in WorkerIds \ new : wpc[x] = "none" => w < x
          /\ workers' = workers \cup new
          /\ wpc' = [w \in WorkerIds |-> IF w \in new THEN "ready" ELSE wpc[w]]
    /\ threads' = 0
    /\ scret' = "returned"
    /\ ctl' = "idle"
    /\ UNCHANGED <<tasks, taskMap, pendingTasks, activeTasks, sequenceCounter,
                   queueLimit, task, submitVars, wtask, wres, cancelVars,
                   oldWorkers, ghostVars, pipeVars>>

\* setConcurrency called on a second control thread: the same three
\* critical sections, on that call's own `threads` and `oldWorkers`.
\* Lines 196-210.
SetConcurrencyBeginB(n) ==
    /\ ctlB = "idle"
    /\ IF ResizeBlocked(pendingTasks, activeTasks)
       THEN /\ ctlB' = "threw"
            /\ UNCHANGED <<workers, stop, paused, wpc, oldWorkersB, threadsB,
                           requestedB>>
       ELSE /\ threadsB' = ClampThreads(n)
            /\ requestedB' = n
            /\ stop' = TRUE
            /\ paused' = FALSE
            /\ wpc' = NotifyAll(wpc)
            /\ oldWorkersB' = workers
            /\ workers' = {}
            /\ ctlB' = "scJoin"
    /\ UNCHANGED <<tasks, taskMap, pendingTasks, activeTasks, sequenceCounter,
                   queueLimit, task, submitVars, wtask, wres, cancelVars,
                   ctlVars, ghostVars, lastB>>
    /\ UNCHANGED <<name, steps, ppc, index, accumulated, results, reported,
                   summary, emitted, calls, failedStep, regVars>>

\* Lines 212-216.
SetConcurrencyJoinB ==
    /\ ctlB = "scJoin"
    /\ \A w \in oldWorkersB : wpc[w] = "exited"
    /\ wpc' = [w \in WorkerIds |-> IF w \in oldWorkersB THEN "none" ELSE wpc[w]]
    /\ oldWorkersB' = {}
    /\ ctlB' = "scSpawn"
    /\ UNCHANGED <<poolVars, task, submitVars, wtask, wres, cancelVars,
                   ctlVars, ghostVars, threadsB, requestedB, lastB>>
    /\ UNCHANGED <<name, steps, ppc, index, accumulated, results, reported,
                   summary, emitted, calls, failedStep, regVars>>

\* Lines 218-225; the call then returns.
SetConcurrencySpawnB ==
    /\ ctlB = "scSpawn"
    /\ stop' = FALSE
    /\ paused' = FALSE
    /\ \E new \in SUBSET {w \in WorkerIds : wpc[w] = "none"} :
          /\ Cardinality(new) = threadsB
          /\ \A w \in new : \A x \in WorkerIds \ new : wpc[x] = "none" => w < x
          /\ workers' = workers \cup new
          /\ wpc' = [w \in WorkerIds |-> IF w \in new THEN "ready" ELSE wpc[w]]
    /\ ctlB' = "returned"
    /\ lastB' = (scret = "returned")
    /\ UNCHANGED <<tasks, taskMap, pendingTasks, activeTasks, sequenceCounter,
                   queueLimit, task, submitVars, wtask, wres, cancelVars,
                   ctlVars, ghostVars, oldWorkersB, threadsB, requestedB>>
    /\ UNCHANGED <<name, steps, ppc, index, accumulated, results, reported,
                   summary, emitted, calls, failedStep, regVars>>

\* ------------------------------------------ CustomTaskRegistry::createTask
\* Progress values are doubles in [0, 1]; they are kept here as the integers
\* 0..One, One standing for 1.0.  One is a multiple of every product "number
\* of steps x iterations" the model uses, so every quotient below is exact;
\* for pipelines of up to three steps the double sums of the code are exact
\* too where it matters (1/3 + 1/3 + 1/3 is 1.0 in IEEE double arithmetic).
One == 3600

Min(a, b) == IF a < b THEN a ELSE b
Max(a, b) == IF a > b THEN a ELSE b

\* The step descriptors a definition can instantiate to: the instant echo,
\* and the accumulation loop with a validated (positive) iteration count.
StepKinds ==
    {[type |-> "INSTANT_MESSAGE", iterations |-> 0, message |-> "hello"]} \cup
    {[type |-> "HEAVY_LOOP", iterations |-> n, message |-> ""] : n \in 1..MaxIterations}

\* The elements of a finite set of integers in ascending order.
Ascending(S) ==
    CHOOSE f \in [1..Cardinality(S) -> S] :
        \A i \in 1..Cardinality(S), j \in 1..Cardinality(S) : i < j => f[i] < f[j]

\* createTaskFunction (TaskUtils.cpp lines 159-245): the values the step
\* function passes to its progress callback, in order.  HEAVY_LOOP reports
\* (i + 1) / iterations for every i that is a multiple of the chunk and for
\* the last i; every other type reports 1.0 once.
Reports(step) ==
    IF step.type = "HEAVY_LOOP"
    THEN LET chunk == Max(1, step.iterations \div 100)
             points == {i \in 0..(step.iterations - 1) :
                           i % chunk = 0 \/ i = step.iterations - 1}
             at == Ascending(points)
         IN  [k \in 1..Cardinality(points) |->
                 Min(One, ((at[k] + 1) * One) \div step.iterations)]
    ELSE <<One>>

\* createTaskFunction: what the step function returns: the message of an
\* instant echo, the total of a loop (a function of its iteration count).
StepResult(step) ==
    IF step.type = "HEAVY_LOOP"
    THEN <<"total", step.iterations>>
    ELSE step.message

\* Line 138: stepWeight.
StepWeight == One \div Len(steps)

\* Lines 145-146: the overall progress for a value reported by the running
\* step.
Overall(stepProgress) ==
    LET normalized == Min(One, Max(0, stepProgress))
    IN  Min(One, accumulated + ((normalized * StepWeight) \div One))

\* The step summary with the index counted from one.
StepSummaryOneBased(i, type, result) ==
    [index |-> i + 1, type |-> type, result |-> result]

\* Lines 151-154: the summary of a step.
StepSummary(i, type, result) ==
    [index |-> i, type |-> type, result |-> result]

\* createTask has returned the runnable for a registered definition:
\* registerTask accepts only a non-empty array of steps (lines 78-80).
InitPipeline(stepFunctions) ==
    /\ name = "greet"
    /\ steps = stepFunctions
    /\ ppc = "created"
    /\ index = 0
    /\ accumulated = 0
    /\ results = <<>>
    /\ reported = 0
    /\ summary = ""
    /\ emitted = <<>>
    /\ calls = <<>>
    /\ failedStep = -1

PipelineInit ==
    /\ InitPool(1)
    /\ EmptyRegistry
    /\ NoPeer
    /\ \E n \in 1..MaxSteps : \E stepFunctions \in [1..n -> StepKinds] :
          InitPipeline(stepFunctions)

\* Lines 132-140: the runnable is invoked; without steps it reports 1.0 and
\* returns a message, otherwise it sets up the loop.
RunnableBegin ==
    /\ ppc = "created"
    /\ IF Len(steps) = 0
       THEN /\ emitted' = Append(emitted, One)
            /\ summary' = "Custom task has no steps"
            /\ ppc' = "done"
       ELSE /\ ppc' = "loop"
            /\ UNCHANGED <<emitted, summary>>
    /\ accumulated' = 0
    /\ results' = <<>>
    /\ index' = 0
    /\ UNCHANGED <<name, steps, reported, calls, failedStep>>
    /\ UNCHANGED <<poolVars, task, submitVars, workerVars, cancelVars, ctlVars,
                   ghostVars, peerVars, regVars>>

\* Lines 142-144: the loop test holds and the step function is called.
StepCall ==
    /\ ppc = "loop"
    /\ index < Len(steps)
    /\ ppc' = "step"
    /\ reported' = 0
    /\ calls' = Append(calls, index)
    /\ UNCHANGED <<name, steps, index, accumulated, results, summary, emitted,
                   failedStep>>
    /\ UNCHANGED <<poolVars, task, submitVars, workerVars, cancelVars, ctlVars,
                   ghostVars, peerVars, regVars>>

\* Lines 144-148: the running step reports its next value; the callback
\* passes the overall value on to the sink.
StepReport ==
    /\ ppc = "step"
    /\ reported < Len(Reports(steps[index + 1]))
    /\ emitted' = Append(emitted, Overall(Reports(steps[index + 1])[reported + 1]))
    /\ reported' = reported + 1
    /\ UNCHANGED <<name, steps, ppc, index, accumulated, results, summary, calls,
                   failedStep>>
    /\ UNCHANGED <<poolVars, task, submitVars, workerVars, cancelVars, ctlVars,
                   ghostVars, peerVars, regVars>>

\* Lines 144 and 149-156: the step function returns; its weight is added,
\* its summary appended and the loop variable advanced.
StepReturn ==
    /\ ppc = "step"
    /\ reported = Len(Reports(steps[index + 1]))
    /\ accumulated' = Min(One, accumulated + StepWeight)
    /\ results' = Append(results, StepSummary(index, steps[index + 1].type,
                                               StepResult(steps[index + 1])))
    /\ index' = index + 1
    /\ ppc' = "loop"
    /\ UNCHANGED <<name, steps, reported, summary, emitted, calls, failedStep>>
    /\ UNCHANGED <<poolVars, task, submitVars, workerVars, cancelVars, ctlVars,
                   ghostVars, peerVars, regVars>>

\* Lines 158-163: after the loop 1.0 is reported and the summary returned.
RunnableEnd ==
    /\ ppc = "loop"
    /\ index >= Len(steps)
    /\ emitted' = Append(emitted, One)
    /\ summary' = [task |-> name, steps |-> results]
    /\ ppc' = "done"
    /\ UNCHANGED <<name, steps, index, accumulated, results, reported, calls,
                   failedStep>>
    /\ UNCHANGED <<poolVars, task, submitVars, workerVars, cancelVars, ctlVars,
                   ghostVars, peerVars, regVars>>

\* The step loop (lines 142-156) holds no handler: an exception thrown by a
\* step function, or by the progress sink it calls, leaves the loop and the
\* runnable at once.  Unwind gives the runnable's position and loop variable
\* after the throw; UnwindSkipsStep is a loop that catches the exception and
\* goes on with the next step.
UnwindSkipsStep(i) == [ppc |-> "loop", index |-> i + 1]
Unwind(i) == [ppc |-> "raised", index |-> i]

\* Line 144: the running step function raises, before, between or after its
\* reports.
StepRaise ==
    /\ ppc = "step"
    /\ ppc' = Unwind(index).ppc
    /\ index' = Unwind(index).index
    /\ failedStep' = index
    /\ UNCHANGED <<name, steps, accumulated, results, reported, summary, emitted,
                   calls>>
    /\ UNCHANGED <<poolVars, task, submitVars, workerVars, cancelVars, ctlVars,
                   ghostVars, peerVars, regVars>>

\* PipelineSpec: one invocation of the composite runnable of a pipeline.
PipelineNext ==
    \/ RunnableBegin
    \/ StepCall
    \/ StepReport
    \/ StepReturn
    \/ RunnableEnd

PipelineSpec == PipelineInit /\ [][PipelineNext]_vars

\* ------------------------------------------------------ CustomTaskRegistry
\* JSON values (nlohmann::json): strings, integers, arrays and objects; an
\* object is a function from its keys to values.  A JSON text is written as
\* the value it denotes; EmptyText is the empty string and BadJson a text
\* that does not parse.
JStr(s) == [t |-> "str", s |-> s]
JInt(n) == [t |-> "int", n |-> n]
JArr(a) == [t |-> "arr", a |-> a]
JObj(o) == [t |-> "obj", o |-> o]
EmptyObject == [k \in {} |-> <<>>]
EmptyText == [t |-> "empty"]
BadJson == [t |-> "bad"]

\* A call that ends with `throw std::invalid_argument(what)`, and one that
\* returns a value.
Throw(what) == [threw |-> TRUE, what |-> what]
Return(value) == [threw |-> FALSE, value |-> value]

\* parseJsonOrThrow (lines 11-20): the empty text gives the empty object.
parseJsonOrThrow(input, context) ==
    IF input.t = "empty" THEN Return(JObj(EmptyObject))
    ELSE IF input.t = "bad" THEN Throw(<<context, "invalid JSON">>)
    ELSE Return(input)

\* The characters of a key or of a path.
Chars(s) ==
    CASE s = "" -> <<>>
      [] s = "u.m" -> <<"u", ".", "m">>
      [] s = "u..m" -> <<"u", ".", ".", "m">>
      [] s = ".n" -> <<".", "n">>
      [] OTHER -> <<s>>

\* Lines 34-44: the path is cut at every '.', and empty segments are dropped.
RECURSIVE Split(_)
Split(chars) ==
    IF chars = <<>>
    THEN <<>>
    ELSE LET dots == {i \in 1..Len(chars) : chars[i] = "."}
             end == IF dots = {}
                    THEN Len(chars) + 1
                    ELSE CHOOSE i \in dots : \A j \in dots : i <= j
             segment == SubSeq(chars, 1, end - 1)
             rest == SubSeq(chars, end + 1, Len(chars))
         IN  (IF segment = <<>> THEN <<>> ELSE <<segment>>) \o Split(rest)

\* current->find(segment) (line 48): the keys of `current` that spell the
\* segment; none when `current` is not an object.
FindKey(current, segment) ==
    IF current.t = "obj"
    THEN {k \in DOMAIN current.o : Chars(k) = segment}
    ELSE {}

\* Lines 46-58: the descent from the payload along the segments.
RECURSIVE Walk(_, _)
Walk(current, segments) ==
    IF segments = <<>>
    THEN [found |-> TRUE, value |-> current]
    ELSE LET child == FindKey(current, Head(segments))
         IN  IF child = {}
             THEN [found |-> FALSE, value |-> current]
             ELSE Walk(current.o[CHOOSE k \in child : TRUE], Tail(segments))

\* resolvePlaceholder with the default taken whenever there is one.
resolvePlaceholderDefaultFirst(value, payload) ==
    IF value.t # "obj"
    THEN Return(value)
    ELSE IF "fromPayload" \notin DOMAIN value.o
    THEN Return(value)
    ELSE IF value.o["fromPayload"].t # "str"
    THEN Return(value)
    ELSE LET path == value.o["fromPayload"].s
             end == Walk(payload, Split(Chars(path)))
         IN  IF "default" \in DOMAIN value.o
             THEN Return(value.o["default"])
             ELSE IF end.found
             THEN Return(end.value)
             ELSE Throw(<<"Payload missing required field", path>>)

\* resolvePlaceholder (lines 22-59).
resolvePlaceholder(value, payload) ==
    IF value.t # "obj"
    THEN Return(value)
    ELSE IF "fromPayload" \notin DOMAIN value.o
    THEN Return(value)
    ELSE IF value.o["fromPayload"].t # "str"
    THEN Return(value)
    ELSE LET path == value.o["fromPayload"].s
             end == Walk(payload, Split(Chars(path)))
         IN  IF end.found
             THEN Return(end.value)
             ELSE IF "default" \in DOMAIN value.o
             THEN Return(value.o["default"])
             ELSE Throw(<<"Payload missing required field", path>>)

\* The keys of a step in the order a json object iterates them (std::map).
FieldOrder == <<"iterations", "message", "type">>

\* instantiateDescriptor (lines 167-176): every field but `type` is resolved,
\* in key order; the first resolution that throws ends the call.
instantiateDescriptor(descriptorTemplate, payload) ==
    LET fields == DOMAIN descriptorTemplate.o \ {"type"}
        resolved == [k \in fields |->
                        resolvePlaceholder(descriptorTemplate.o[k], payload)]
        failing == {i \in 1..Len(FieldOrder) :
                       /\ FieldOrder[i] \in fields
                       /\ resolved[FieldOrder[i]].threw}
        first == CHOOSE i \in failing : \A j \in failing : i <= j
    IN  IF failing = {}
        THEN Return(JObj([k \in DOMAIN descriptorTemplate.o |->
                             IF k = "type"
                             THEN descriptorTemplate.o[k]
                             ELSE resolved[k].value]))
        ELSE resolved[FieldOrder[first]]

\* std::to_string and std::stoll on the numbers 0..9; IsNumber: stoll does
\* not throw.
Digits == <<"0", "1", "2", "3", "4", "5", "6", "7", "8", "9">>
to_string(n) == Digits[n + 1]
IsNumber(s) == \E n \in 0..9 : Digits[n + 1] = s
stoll(s) == CHOOSE n \in 0..9 : Digits[n + 1] = s

\* parseTaskData, lines 76-86: a field's value as a parameter string; a text
\* is kept, an integer printed, an object or array dumped.
Param(value) ==
    CASE value.t = "str" -> value.s
      [] value.t = "int" -> to_string(value.n)
      [] OTHER -> "{...}"

\* validateDescriptor's requirePositive (lines 27-39): the throw of line 32
\* is caught by the handler of line 34, so a value that is not positive is
\* reported as not a number.
requirePositive(params, key) ==
    IF key \notin DOMAIN params
    THEN Throw(<<"Task descriptor missing required field", key>>)
    ELSE IF ~IsNumber(params[key])
    THEN Throw(<<key, "must be a number">>)
    ELSE IF stoll(params[key]) <= 0
    THEN Throw(<<key, "must be a number">>)
    ELSE Return(TRUE)

\* validateDescriptor (lines 16-48) for the types of the model.
validateDescriptor(descriptor) ==
    IF descriptor.type = ""
    THEN Throw(<<"Task descriptor missing type", "">>)
    ELSE IF descriptor.type = "HEAVY_LOOP"
    THEN requirePositive(descriptor.params, "iterations")
    ELSE Return(TRUE)

\* parseTaskData (lines 52-90) on the dump of an instantiated step, which is
\* a JSON object whose `type` is a string.
parseTaskData(stepJson) ==
    LET descriptor == [type |-> stepJson.o["type"].s,
                       params |-> [k \in DOMAIN stepJson.o \ {"type"} |->
                                      Param(stepJson.o[k])]]
        valid == validateDescriptor(descriptor)
    IN  IF valid.threw THEN valid ELSE Return(descriptor)

\* getLongParam and getStringParam (lines 135-155).
getLongParam(descriptor, key, defaultValue) ==
    IF key \notin DOMAIN descriptor.params
    THEN defaultValue
    ELSE IF IsNumber(descriptor.params[key])
    THEN stoll(descriptor.params[key])
    ELSE defaultValue

getStringParam(descriptor, key, defaultValue) ==
    IF key \notin DOMAIN descriptor.params
    THEN defaultValue
    ELSE descriptor.params[key]

\* createTaskFunction (lines 159-245): the step function, given by its type
\* and the values it captured.
createTaskFunction(descriptor) ==
    IF descriptor.type = "HEAVY_LOOP"
    THEN [type |-> "HEAVY_LOOP",
          iterations |-> Max(0, getLongParam(descriptor, "iterations", 0)),
          message |-> ""]
    ELSE IF descriptor.type = "INSTANT_MESSAGE"
    THEN [type |-> "INSTANT_MESSAGE",
          iterations |-> 0,
          message |-> getStringParam(descriptor, "message", "Task completed")]
    ELSE [type |-> descriptor.type, iterations |-> 0,
          message |-> "Unknown task type"]

\* createTask, lines 122-130: the step functions of the templates, or the
\* first exception of an instantiation or a validation.
RECURSIVE BuildSteps(_, _)
BuildSteps(templates, payload) ==
    IF templates = <<>>
    THEN Return(<<>>)
    ELSE LET stepJson == instantiateDescriptor(Head(templates), payload)
         IN  IF stepJson.threw
             THEN stepJson
             ELSE LET descriptor == parseTaskData(stepJson.value)
                  IN  IF descriptor.threw
                      THEN descriptor
                      ELSE LET rest == BuildSteps(Tail(templates), payload)
                           IN  IF rest.threw
                               THEN rest
                               ELSE Return(<<createTaskFunction(descriptor.value)>>
                                           \o rest.value)

\* tasks_.find(name) != tasks_.end(), tasks_[name] = definition and
\* tasks_.erase(name).
HasTask(map, nm) == nm \in DOMAIN map
Put(map, nm, def) ==
    [x \in DOMAIN map \cup {nm} |-> IF x = nm THEN def ELSE map[x]]
Erase(map, nm) == [x \in DOMAIN map \ {nm} |-> map[x]]

\* std::lock_guard<std::mutex> lock(mutex_) (lines 95, 100 and 112): a call
\* waits while another holds the lock; and a lock that excludes nobody.
HeldNever(m) == FALSE
Held(m) == m # "free"

\* createTask, lines 110-116: the lock is taken and the name looked up; the
\* call throws for an unknown name (the guard releases the lock), otherwise
\* it goes on, holding the lock, to copy the definition found into its
\* default-constructed local.
CreateTaskLookup(nm, input) ==
    /\ rpc = "idle"
    /\ ppc = "none"
    /\ ~Held(mutex_)
    /\ cname' = nm
    /\ payloadJson' = input
    /\ IF HasTask(tasks_, nm)
       THEN /\ definition' = [steps |-> <<>>]
            /\ mutex_' = "createTask"
            /\ rpc' = "copying"
            /\ UNCHANGED cerr
       ELSE /\ cerr' = <<"Unknown custom task", nm>>
            /\ rpc' = "threw"
            /\ UNCHANGED <<definition, mutex_>>
    /\ UNCHANGED <<tasks_, rcall, regret>>
    /\ UNCHANGED <<name, steps, ppc, index, accumulated, results, reported,
                   summary, emitted, calls, failedStep>>
    /\ UNCHANGED <<poolVars, task, submitVars, workerVars, cancelVars, ctlVars,
                   ghostVars, peerVars>>

\* createTask, lines 117-118: `definition = it->second` copies the vector of
\* steps element by element, reading the entry the iterator points at (which
\* is there for as long as nobody erases it); after the last element the
\* lock is released.
CreateTaskCopy ==
    /\ rpc = "copying"
    /\ HasTask(tasks_, cname)
    /\ LET source == tasks_[cname].steps
           copied == Len(definition.steps)
       IN  IF copied < Len(source)
           THEN /\ definition' = [steps |-> Append(definition.steps, source[copied + 1])]
                /\ UNCHANGED <<mutex_, rpc>>
           ELSE /\ mutex_' = "free"
                /\ rpc' = "copied"
                /\ UNCHANGED definition
    /\ UNCHANGED <<tasks_, cname, payloadJson, cerr, rcall, regret>>
    /\ UNCHANGED <<name, steps, ppc, index, accumulated, results, reported,
                   summary, emitted, calls, failedStep>>
    /\ UNCHANGED <<poolVars, task, submitVars, workerVars, cancelVars, ctlVars,
                   ghostVars, peerVars>>

\* createTask, lines 120-164, on locals only: the payload is parsed, every
\* step instantiated, validated and turned into a step function, and the
\* runnable holding the name and the step functions is returned; the first
\* exception ends the call and no runnable exists.
CreateTaskBuild ==
    /\ rpc = "copied"
    /\ LET payload == parseJsonOrThrow(payloadJson, "Task payload")
           built == IF payload.threw
                    THEN payload
                    ELSE BuildSteps(definition.steps, payload.value)
       IN  IF built.threw
           THEN /\ cerr' = built.what
                /\ rpc' = "threw"
                /\ UNCHANGED <<name, steps, ppc>>
           ELSE /\ name' = cname
                /\ steps' = built.value
                /\ ppc' = "created"
                /\ rpc' = "returned"
                /\ UNCHANGED cerr
    /\ UNCHANGED <<tasks_, mutex_, cname, payloadJson, definition, rcall, regret>>
    /\ UNCHANGED <<index, accumulated, results, reported, summary, emitted,
                   calls, failedStep>>
    /\ UNCHANGED <<poolVars, task, submitVars, workerVars, cancelVars, ctlVars,
                   ghostVars, peerVars>>

\* ParseDefinition without the test of lines 88-91: a step needs no `type`.
ParseDefinitionAnyStep(nm, definitionJson) ==
    IF nm = ""
    THEN Throw(<<"Task name cannot be empty", "">>)
    ELSE LET parsed == parseJsonOrThrow(definitionJson, "Task definition")
         IN  IF parsed.threw
             THEN parsed
             ELSE IF parsed.value.t # "obj"
             THEN Throw(<<"Task definition must be a JSON object", "">>)
             ELSE IF "steps" \notin DOMAIN parsed.value.o
             THEN Throw(<<"Task definition requires a non-empty 'steps' array", "">>)
             ELSE IF parsed.value.o["steps"].t # "arr"
             THEN Throw(<<"Task definition requires a non-empty 'steps' array", "">>)
             ELSE IF parsed.value.o["steps"].a = <<>>
             THEN Throw(<<"Task definition requires a non-empty 'steps' array", "">>)
             ELSE LET list == parsed.value.o["steps"].a
                  IN  IF \E k \in 1..Len(list) : list[k].t # "obj"
                      THEN Throw(<<"Each step must be a JSON object", "">>)
                      ELSE Return([steps |-> list])

\* registerTask, lines 69-93: the checks of the name and of the definition
\* text; a valid text gives the TaskDefinition holding its steps.
ParseDefinition(nm, definitionJson) ==
    IF nm = ""
    THEN Throw(<<"Task name cannot be empty", "">>)
    ELSE LET parsed == parseJsonOrThrow(definitionJson, "Task definition")
         IN  IF parsed.threw
             THEN parsed
             ELSE IF parsed.value.t # "obj"
             THEN Throw(<<"Task definition must be a JSON object", "">>)
             ELSE IF "steps" \notin DOMAIN parsed.value.o
             THEN Throw(<<"Task definition requires a non-empty 'steps' array", "">>)
             ELSE IF parsed.value.o["steps"].t # "arr"
             THEN Throw(<<"Task definition requires a non-empty 'steps' array", "">>)
             ELSE IF parsed.value.o["steps"].a = <<>>
             THEN Throw(<<"Task definition requires a non-empty 'steps' array", "">>)
             ELSE LET list == parsed.value.o["steps"].a
                  IN  IF \E k \in 1..Len(list) : list[k].t # "obj"
                      THEN Throw(<<"Each step must be a JSON object", "">>)
                      ELSE IF \E k \in 1..Len(list) :
                                 \/ "type" \notin DOMAIN list[k].o
                                 \/ list[k].o["type"].t # "str"
                      THEN Throw(<<"Each step must include a string 'type'", "">>)
                      ELSE Return([steps |-> list])

\* registerTask (lines 68-97): a text that passes the checks is stored under
\* the name, in one critical section of mutex_; any other leaves by an
\* exception before the lock is asked for.
RegisterTask(nm, definitionJson) ==
    /\ rcall' = <<nm, definitionJson>>
    /\ LET taskDefinition == ParseDefinition(nm, definitionJson)
       IN  IF taskDefinition.threw
           THEN /\ regret' = "threw"
                /\ UNCHANGED tasks_
           ELSE /\ ~Held(mutex_)
                /\ tasks_' = Put(tasks_, nm, taskDefinition.value)
                /\ regret' = "returned"
    /\ UNCHANGED <<mutex_, rpc, cname, payloadJson, definition, cerr>>
    /\ UNCHANGED <<name, steps, ppc, index, accumulated, results, reported,
                   summary, emitted, calls, failedStep>>
    /\ UNCHANGED <<poolVars, task, submitVars, workerVars, cancelVars, ctlVars,
                   ghostVars, peerVars>>

\* unregisterTask (lines 99-102): one critical section of mutex_.
UnregisterTask(nm) ==
    /\ ~Held(mutex_)
    /\ tasks_' = Erase(tasks_, nm)
    /\ UNCHANGED <<mutex_, rpc, cname, payloadJson, definition, cerr, rcall, regret>>
    /\ UNCHANGED <<name, steps, ppc, index, accumulated, results, reported,
                   summary, emitted, calls, failedStep>>
    /\ UNCHANGED <<poolVars, task, submitVars, workerVars, cancelVars, ctlVars,
                   ghostVars, peerVars>>

\* The inputs of the model: a field that is an indirection object, the step
\* templates, and the payload texts.
Indirection(path) == JObj([fromPayload |-> JStr(path)])
IndirectionOr(path, default) ==
    JObj([fromPayload |-> JStr(path), default |-> default])

StepTemplates ==
    {JObj([type |-> JStr("INSTANT_MESSAGE"), message |-> JStr("hello")]),
     JObj([type |-> JStr("INSTANT_MESSAGE"), message |-> Indirection("m")]),
     JObj([type |-> JStr("INSTANT_MESSAGE"),
           message |-> IndirectionOr("u.m", JStr("anon"))]),
     JObj([type |-> JStr("INSTANT_MESSAGE"), message |-> Indirection("u..m")]),
     JObj([type |-> JStr("HEAVY_LOOP"), iterations |-> Indirection("n")]),
     JObj([type |-> JStr("HEAVY_LOOP"),
           iterations |-> IndirectionOr(".n", JInt(1))]),
     JObj([type |-> JStr("HEAVY_LOOP"), iterations |-> JInt(MaxIterations)])}

Payloads ==
    {EmptyText, BadJson, JInt(5),
     JObj([n |-> JInt(MaxIterations)]),
     JObj([n |-> JInt(0)]),
     JObj([m |-> JStr("hi")]),
     JObj([u |-> JObj([m |-> JStr("hi")])]),
     JObj([u |-> JStr("x")]),
     JObj([n |-> JInt(1), m |-> JStr("hi"), u |-> JObj([m |-> JStr("you")])])}

\* CreateSpec: a definition of one to MaxSteps steps has been registered
\* under "greet"; createTask is called once, and the runnable it returns is
\* invoked.
CreateInit ==
    /\ InitPool(1)
    /\ NoPipeline
    /\ NoPeer
    /\ \E n \in 1..MaxSteps : \E list \in [1..n -> StepTemplates] :
          /\ tasks_ = [x \in {"greet"} |-> [steps |-> list]]
          /\ rcall = <<"greet", JObj([steps |-> JArr(list)])>>
    /\ regret = "returned"
    /\ mutex_ = "free"
    /\ rpc = "idle"
    /\ cname = ""
    /\ payloadJson = EmptyText
    /\ definition = <<>>
    /\ cerr = <<>>

CreateNext ==
    \/ \E nm \in {"greet", "other"}, input \in Payloads : CreateTaskLookup(nm, input)
    \/ CreateTaskCopy
    \/ CreateTaskBuild
    \/ PipelineNext

CreateSpec == CreateInit /\ [][CreateNext]_vars

\* RegistrySpec: registerTask, unregisterTask and createTask are called in
\* any order on the registry, from its construction on, and the runnable that
\* createTask returned is invoked.  The definition texts: the ones
\* registerTask turns away, and definitions of one to MaxSteps steps: instant
\* echoes, the first of which may be replaced by a loop.
EchoTemplate == JObj([type |-> JStr("INSTANT_MESSAGE"), message |-> JStr("hello")])
LoopTemplate == JObj([type |-> JStr("HEAVY_LOOP"), iterations |-> Indirection("n")])

ValidDefinitions ==
    {[k \in 1..n |-> IF k = 1 THEN first ELSE EchoTemplate] :
        n \in 1..MaxSteps, first \in {EchoTemplate, LoopTemplate}}

DefinitionTexts ==
    {EmptyText, BadJson, JInt(5),
     JObj([task |-> JStr("greet")]),
     JObj([steps |-> JStr("none")]),
     JObj([steps |-> JArr(<<>>)]),
     JObj([steps |-> JArr(<<JInt(1)>>)]),
     JObj([steps |-> JArr(<<JObj([type |-> JStr("INSTANT_MESSAGE")]),
                            JObj([message |-> JStr("hello")])>>)]),
     JObj([steps |-> JArr(<<JObj([type |-> JInt(1)])>>)])}
    \cup {JObj([steps |-> JArr(list)]) : list \in ValidDefinitions}

RegistryInit == InitPool(1) /\ NoPipeline /\ EmptyRegistry /\ NoPeer

RegistryNext ==
    \/ \E text \in DefinitionTexts : RegisterTask("greet", text)
    \/ RegisterTask("", JObj([steps |-> JArr(<<EchoTemplate>>)]))
    \/ UnregisterTask("greet")
    \/ \E input \in {EmptyText, JObj([n |-> JInt(MaxIterations)])} :
          CreateTaskLookup("greet", input)
    \/ CreateTaskCopy
    \/ CreateTaskBuild
    \/ PipelineNext

RegistrySpec == RegistryInit /\ [][RegistryNext]_vars

\* ------------------------------------------------------------ behaviours
\* The submitters and the workers.  A worker blocked in condition.wait is
\* "ready": wait may return spuriously, so for the states the pool can reach
\* a sleeping worker and a ready one are the same.  Only LiveSpec, which
\* is about progress, tracks who sleeps and who is notified.
SubmitNext ==
    \/ \E i \in TaskIds, taskId \in Ids, priority \in Priorities :
          SubmitSeq(i, taskId, priority)
    \/ \E i \in TaskIds : SubmitLock(i)
    \/ \E i \in TaskIds : SubmitReturn(i)

\* The submitters of a host that gives every task the NORMAL priority.
PlainSubmitNext ==
    \/ \E i \in TaskIds, taskId \in Ids : SubmitSeq(i, taskId, NORMAL)
    \/ \E i \in TaskIds : SubmitLock(i)
    \/ \E i \in TaskIds : SubmitReturn(i)

WorkerNext ==
    \/ \E w \in WorkerIds : WorkerDequeue(w)
    \/ \E w \in WorkerIds, outcome \in Outcomes : WorkerPost(w, outcome)
    \/ \E w \in WorkerIds : WorkerFinish(w)

CancelNext ==
    \/ \E taskId \in Ids : CancelLookup(taskId)
    \/ CancelFinish

\* Spec: a running pool with its submitters, workers, a cancelling thread
\* and a thread that pauses and resumes.
Next ==
    \/ SubmitNext
    \/ WorkerNext
    \/ CancelNext
    \/ Pause
    \/ Resume

Spec == Init /\ [][Next]_vars

\* RunSpec: a pool of NORMAL tasks that is never paused, under fair
\* scheduling.  A thread
\* that can take its next step takes it (the operating system schedules every
\* runnable thread), a worker whose dequeue is enabled again and again gets
\* the lock eventually, and a cancelTask call that has begun ends.
RunFairness ==
    /\ \A i \in TaskIds : WF_vars(SubmitLock(i)) /\ WF_vars(SubmitReturn(i))
    /\ \A w \in WorkerIds :
          /\ SF_vars(WorkerDequeue(w))
          /\ WF_vars(\E outcome \in Outcomes : WorkerPost(w, outcome))
          /\ WF_vars(WorkerFinish(w))
    /\ WF_vars(CancelFinish)

RunNext == PlainSubmitNext \/ WorkerNext \/ CancelNext

RunSpec == Init /\ [][RunNext]_vars /\ RunFairness

\* LimitSpec: Spec with a thread that sets the queue limit.
LimitNext ==
    \/ Next
    \/ \E limit \in Limits : SetQueueLimit(limit)

LimitSpec == Init /\ [][LimitNext]_vars

\* LiveSpec: the pool's whole life, with sleeping workers, notifications
\* and shutdown.  Fairness: a thread that can take its next step takes it
\* (the operating system schedules every runnable thread); a worker whose
\* dequeue is enabled again and again gets the lock eventually; a paused
\* pool is resumed.  Nothing obliges the host to start a call.
LiveNext ==
    \/ SubmitNext
    \/ WorkerNext
    \/ \E w \in WorkerIds : WorkerSleep(w)
    \/ \E w \in WorkerIds : WorkerSpurious(w)
    \/ \E w \in WorkerIds : WorkerExit(w)
    \/ Pause
    \/ Resume
    \/ ShutdownBegin
    \/ ShutdownJoin
    \/ ShutdownClear

LiveFairness ==
    /\ \A i \in TaskIds : WF_vars(SubmitLock(i)) /\ WF_vars(SubmitReturn(i))
    /\ \A w \in WorkerIds :
          /\ SF_vars(WorkerDequeue(w))
          /\ WF_vars(WorkerExit(w))
          /\ WF_vars(\E outcome \in Outcomes : WorkerPost(w, outcome))
          /\ WF_vars(WorkerFinish(w))
    /\ WF_vars(Resume)
    /\ WF_vars(ShutdownJoin)
    /\ WF_vars(ShutdownClear)

LiveSpec == Init /\ [][LiveNext]_vars /\ LiveFairness

\* ResizeSpec: a pool whose host submits NORMAL tasks, pauses and resumes,
\* sets the queue limit and resizes the pool; a worker that sees stop with
\* an empty queue returns.
SetConcurrencyNext ==
    \/ \E n \in 0..MaxWorkers : SetConcurrencyBegin(n)
    \/ SetConcurrencyJoin
    \/ SetConcurrencySpawn

ResizeNext ==
    \/ PlainSubmitNext
    \/ WorkerNext
    \/ \E w \in WorkerIds : WorkerExit(w)
    \/ Pause
    \/ Resume
    \/ \E limit \in Limits : SetQueueLimit(limit)
    \/ SetConcurrencyNext

ResizeSpec == Init /\ [][ResizeNext]_vars

\* ResizeLiveSpec: ResizeSpec under fair scheduling.  A thread that can take
\* its next step takes it, a worker whose dequeue is enabled again and again
\* gets the lock eventually, a paused pool is resumed, and a setConcurrency
\* call that has begun goes on to join and to spawn.
ResizeFairness ==
    /\ \A i \in TaskIds : WF_vars(SubmitLock(i)) /\ WF_vars(SubmitReturn(i))
    /\ \A w \in WorkerIds :
          /\ SF_vars(WorkerDequeue(w))
          /\ WF_vars(WorkerExit(w))
          /\ WF_vars(\E outcome \in Outcomes : WorkerPost(w, outcome))
          /\ WF_vars(WorkerFinish(w))
    /\ WF_vars(Resume)
    /\ WF_vars(SetConcurrencyJoin)
    /\ WF_vars(SetConcurrencySpawn)

ResizeLiveSpec == Init /\ [][ResizeNext]_vars /\ ResizeFairness

\* PauseSpec: a pool whose host submits NORMAL tasks, cancels, pauses and
\* resumes and sets the queue limit.
PauseNext ==
    \/ PlainSubmitNext
    \/ WorkerNext
    \/ CancelNext
    \/ Pause
    \/ Resume
    \/ \E limit \in Limits : SetQueueLimit(limit)

PauseSpec == Init /\ [][PauseNext]_vars

\* CancelSpec: a pool whose host submits NORMAL tasks, sets the queue limit
\* and calls cancelTask with one id, CancelTarget.
CancelTarget == "a"

CancelTargetNext ==
    \/ CancelLookup(CancelTarget)
    \/ CancelFinish

CancelSpecNext ==
    \/ PlainSubmitNext
    \/ WorkerNext
    \/ CancelTargetNext
    \/ \E limit \in Limits : SetQueueLimit(limit)

CancelSpec == Init /\ [][CancelSpecNext]_vars

\* FullSpec: every operation of the pool.
FullNext ==
    \/ LimitNext
    \/ \E w \in WorkerIds : WorkerExit(w)
    \/ ShutdownBegin
    \/ ShutdownJoin
    \/ ShutdownClear
    \/ \E n \in 0..MaxWorkers : SetConcurrencyBegin(n)
    \/ SetConcurrencyJoin
    \/ SetConcurrencySpawn

FullSpec == Init /\ [][FullNext]_vars

\* WakeSpec: the pool with its sleeping workers and its notifications: the
\* host submits NORMAL tasks, pauses, resumes and shuts down.  Fairness: a
\* thread that can take its next step takes it, and a worker that is awake
\* and finds its dequeue enabled again and again gets the lock eventually.
\* Nothing obliges the host to call resume, nothing wakes a sleeping worker
\* but a notification, and no spurious wake-up is ever due.
WakeNext ==
    \/ PlainSubmitNext
    \/ WorkerNext
    \/ \E w \in WorkerIds : WorkerSleep(w)
    \/ \E w \in WorkerIds : WorkerSpurious(w)
    \/ \E w \in WorkerIds : WorkerExit(w)
    \/ Pause
    \/ Resume
    \/ ShutdownBegin
    \/ ShutdownJoin
    \/ ShutdownClear

WakeFairness ==
    /\ \A i \in TaskIds : WF_vars(SubmitLock(i)) /\ WF_vars(SubmitReturn(i))
    /\ \A w \in WorkerIds :
          /\ SF_vars(WorkerDequeue(w))
          /\ WF_vars(\E outcome \in Outcomes : WorkerPost(w, outcome))
          /\ WF_vars(WorkerFinish(w))

WakeSpec == Init /\ [][WakeNext]_vars /\ WakeFairness

\* BookSpec: a pool whose host submits NORMAL tasks, cancels one id and
\* shuts the pool down, any number of times; a worker that sees stop with an
\* empty queue returns.
BookNext ==
    \/ PlainSubmitNext
    \/ WorkerNext
    \/ \E w \in WorkerIds : WorkerExit(w)
    \/ CancelTargetNext
    \/ ShutdownBegin
    \/ ShutdownJoin
    \/ ShutdownClear

BookSpec == Init /\ [][BookNext]_vars

\* DownSpec: BookSpec with a host that also pauses and resumes.
DownNext ==
    \/ BookNext
    \/ Pause
    \/ Resume

DownSpec == Init /\ [][DownNext]_vars

\* QueuedCancelSpec: CancelSpec with a host that also calls setConcurrency.
QueuedCancelNext ==
    \/ CancelSpecNext
    \/ SetConcurrencyNext
    \/ \E w \in WorkerIds : WorkerExit(w)

QueuedCancelSpec == Init /\ [][QueuedCancelNext]_vars

\* RestartSpec: BookSpec with a host that also calls setConcurrency.
RestartNext ==
    \/ BookNext
    \/ SetConcurrencyNext

RestartSpec == Init /\ [][RestartNext]_vars

\* ConcurrentSpec: a quiescent pool of one worker whose host calls
\* setConcurrency once on each of two threads, asking for one worker (as 0
\* or as 1).  The workers only wait, wake and return.  A thread that can
\* take a step eventually takes it; a spurious wake-up is never owed.
PeerRequests == {0, 1}

ConcurrentInit == InitPool(1) /\ NoPipeline /\ EmptyRegistry /\ NoPeer

ConcurrentNext ==
    \/ \E n \in PeerRequests : scret = "none" /\ SetConcurrencyBegin(n)
    \/ SetConcurrencyJoin
    \/ SetConcurrencySpawn
    \/ \E n \in PeerRequests : SetConcurrencyBeginB(n)
    \/ SetConcurrencyJoinB
    \/ SetConcurrencySpawnB
    \/ \E w \in WorkerIds : WorkerSleep(w)
    \/ \E w \in WorkerIds : WorkerSpurious(w)
    \/ \E w \in WorkerIds : WorkerExit(w)

ConcurrentFairness ==
    /\ WF_vars(SetConcurrencyJoin)
    /\ WF_vars(SetConcurrencySpawn)
    /\ WF_vars(SetConcurrencyJoinB)
    /\ WF_vars(SetConcurrencySpawnB)
    /\ \A w \in WorkerIds : WF_vars(WorkerSleep(w))
    /\ \A w \in WorkerIds : WF_vars(WorkerExit(w))

ConcurrentSpec == ConcurrentInit /\ [][ConcurrentNext]_vars /\ ConcurrentFairness

\* PipelineTaskSpec: the composite runnable of a pipeline is submitted to the
\* pool as the work body of one task (id "a"), which may be cancelled.  The
\* body is invoked by the worker that dequeued the task (line 62) and runs
\* outside every pool lock.
BodyRunning == \E w \in WorkerIds : wpc[w] = "run"

BodyNext ==
    /\ BodyRunning
    /\ \/ RunnableBegin
       \/ StepCall
       \/ StepReport
       \/ StepReturn
       \/ RunnableEnd
       \/ StepRaise

\* Lines 62-70: task->work returned, or threw and the exception was caught.
BodyOutcome == IF ppc = "raised" THEN "raise" ELSE "ok"

WorkerPostBody(w) ==
    /\ ppc \in {"done", "raised"}
    /\ WorkerPost(w, BodyOutcome)

PipelineTaskNext ==
    \/ SubmitSeq(1, "a", NORMAL)
    \/ SubmitLock(1)
    \/ SubmitReturn(1)
    \/ \E w \in WorkerIds :
          \/ WorkerSleep(w)
          \/ WorkerSpurious(w)
          \/ WorkerDequeue(w)
          \/ WorkerPostBody(w)
          \/ WorkerFinish(w)
    \/ BodyNext
    \/ CancelLookup("a")
    \/ CancelFinish

PipelineTaskSpec == PipelineInit /\ [][PipelineTaskNext]_vars

\* ---------------------------------------------------------------- claims
\* A TaskResult in the Cancelled state: cancelled, not a success, no value.
IsCancelled(r) == r.cancelled /\ ~r.success /\ r.valueJson = ""

\* A TaskResult in the Error state.
IsError(r) == ~r.cancelled /\ ~r.success /\ r.valueJson = ""

\* No worker holds task t.
Released(t) == \A w \in WorkerIds : wtask[w] # t

\* C1: a task whose cancelled flag was set while it was still in the ready
\* queue never has its work body invoked; once a worker has popped it, it is
\* finished with the Cancelled result and no worker holds it (it was never
\* counted active).
C1_CancelledWhileQueuedNeverRuns ==
    \A t \in markedQueued :
        /\ t \notin ran
        /\ t \in dequeued =>
              /\ task[t].finished
              /\ task[t].hasResult
              /\ task[t].result = makeCancelledResult
              /\ Released(t)

\* C1 witness: a task was cancelled while queued and a worker has popped it
\* since.
C1_Witness ==
    \E t \in markedQueued : t \in dequeued /\ t \notin tasks /\ cpc = "idle"

\* C2: when cancelTask found a task under the id (it set the task's
\* cancelled flag and returns true), whatever that task's submitTask call
\* returns is a Cancelled result, and so is the result stored in the task
\* once it is finished, whether the task was queued or executing and
\* whether its body returned or raised.
C2_CancelledOverrides ==
    \A t \in TaskIds :
        task[t].cancelled =>
            /\ spc[t] = "ret" => IsCancelled(sret[t])
            /\ task[t].hasResult => IsCancelled(task[t].result)

\* C2 witness: a task was cancelled while its body was executing, the body
\* ran to its end, cancelTask has returned and so has the submitTask call.
C2_Witness ==
    \E t \in ran :
        /\ task[t].cancelled
        /\ t \notin markedQueued
        /\ Released(t)
        /\ cpc = "idle"
        /\ spc[t] = "ret"

\* C3: every task a worker pops has the highest priority among the tasks in
\* the queue at that moment and, among those of that priority, the smallest
\* sequence number.
C3_DequeueTakesTop ==
    [][\A t \in dequeued' \ dequeued :
          /\ t \in tasks
          /\ \A u \in tasks \ {t} :
                \/ task[u].priority < task[t].priority
                \/ /\ task[u].priority = task[t].priority
                   /\ task[u].sequence > task[t].sequence]_vars

\* C3 witness: a task was popped while a task that shared the queue with it
\* stayed behind.
C3_Witness ==
    \E t \in dequeued, u \in tasks : t \in queuedWith[u] \/ u \in queuedWith[t]

\* Tasks a and b were in the ready queue at the same time.
QueuedTogether(a, b) == a \in queuedWith[b] \/ b \in queuedWith[a]

\* The pool runs a single worker thread.
SingleWorker == Cardinality(workers) = 1

\* C4 as stated: when HIGH task b was pushed while NORMAL task a was still
\* queued, b's submitTask call has returned by the time a's body begins,
\* for any number of workers.
C4_Original ==
    \A a \in TaskIds, b \in TaskIds :
        ( /\ task[a].priority = NORMAL
          /\ task[b].priority = HIGH
          /\ a \in queuedWith[b]
          /\ a \in ran )
        => spc[b] = "ret"

\* C4 as amended: when HIGH task b was pushed while NORMAL task a was still
\* queued, b has been popped by a worker by the time a's body begins, for
\* any number of workers; in a pool with a single worker b is moreover
\* finished (its result written) by then.
C4_HighDequeuedFirst ==
    \A a \in TaskIds, b \in TaskIds :
        ( /\ task[a].priority = NORMAL
          /\ task[b].priority = HIGH
          /\ a \in queuedWith[b]
          /\ a \in ran )
        => /\ b \in dequeued
           /\ SingleWorker => task[b].finished /\ task[b].hasResult

\* C4 witness: the body of NORMAL task a has begun in a single-worker pool
\* after HIGH task b joined it in the queue, and b ran too.
C4_Witness ==
    \E a \in ran, b \in ran :
        /\ task[a].priority = NORMAL
        /\ task[b].priority = HIGH
        /\ a \in queuedWith[b]
        /\ SingleWorker

\* C5 as stated: every accepted task of a higher priority is finished before
\* the body of any task of a lower priority begins.
C5_Original ==
    \A a \in accepted, b \in accepted :
        (task[b].priority > task[a].priority /\ a \in ran) => task[b].finished

\* C5 as amended: of two tasks that were in the ready queue together, the one
\* of higher priority has been popped by a worker by the time the body of
\* the other begins, for any number of workers; in a pool with a single
\* worker it is moreover finished by then.
C5_HigherPriorityDequeuedFirst ==
    \A a \in accepted, b \in accepted :
        ( /\ task[b].priority > task[a].priority
          /\ QueuedTogether(a, b)
          /\ a \in ran )
        => /\ b \in dequeued
           /\ SingleWorker => task[b].finished /\ task[b].hasResult

\* C5 witness: a LOW task's body has begun after it shared the queue with a
\* task of higher priority that was pushed first.
C5_Witness ==
    \E a \in ran, b \in accepted :
        /\ task[a].priority = LOW
        /\ task[b].priority > LOW
        /\ b \in queuedWith[a]

\* C6 as stated: of two accepted tasks of equal priority, the one with the
\* smaller sequence number is popped first.
C6_FifoBySequence ==
    \A t \in accepted, u \in accepted :
        ( /\ task[t].priority = task[u].priority
          /\ task[t].sequence < task[u].sequence
          /\ u \in dequeued )
        => t \in dequeued

\* C7: (a) under a non-zero limit L that was installed when at most L tasks
\* were pending, the pending count never exceeds L; (b) a submitTask call
\* that reaches the admission test of a running pool when the limit is L > 0
\* and L tasks or more are pending returns an error at once, without being
\* pushed, mapped or counted and without waiting; (c) with the limit 0, or
\* fewer than L pending, it is pushed and the pending count grows by one.
C7_Backpressure ==
    /\ [](queueLimit > 0 /\ limitHeld => pendingTasks <= queueLimit)
    /\ [][\A i \in TaskIds :
             (spc[i] = "lock" /\ spc'[i] # "lock" /\ ~stop) =>
                IF queueLimit > 0 /\ pendingTasks >= queueLimit
                THEN /\ spc'[i] = "ret"
                     /\ IsError(sret'[i])
                     /\ sret'[i].errorMessage = "ThreadPool queue limit reached"
                     /\ i \notin tasks'
                     /\ tasks' = tasks
                     /\ taskMap' = taskMap
                     /\ pendingTasks' = pendingTasks
                ELSE /\ spc'[i] = "wait"
                     /\ tasks' = tasks \cup {i}
                     /\ pendingTasks' = pendingTasks + 1]_vars

\* C7 witness: under a limit L > 0 installed in time, L tasks are pending
\* and a further submit has been turned away.
C7_Witness ==
    /\ queueLimit > 0
    /\ limitHeld
    /\ pendingTasks = queueLimit
    /\ \E i \in TaskIds :
          /\ spc[i] = "ret"
          /\ sret[i].errorMessage = "ThreadPool queue limit reached"
          /\ i \notin accepted

\* C8 as stated: every submitTask call that has begun eventually returns a
\* result (a rejection, or the result of its finalized task).
C8_EverySubmitReturns ==
    \A i \in TaskIds : (spc[i] = "lock") ~> (spc[i] = "ret")

\* C9 as stated: the result slot of a task is written at most once; a writer
\* that comes after the first performs no write.
C9_SingleResultWrite ==
    \A t \in TaskIds : writes[t] <= 1

\* The pool's counters agree with the queue and with the workers that are
\* executing a body, and no worker thread has ended while the pool runs.
PoolConsistent ==
    /\ pendingTasks = Cardinality(tasks)
    /\ activeTasks = Cardinality({w \in WorkerIds : wpc[w] = "run"})
    /\ stop \/ \A w \in workers : wpc[w] \in {"ready", "sleep", "run", "fin"}

\* C10 as stated: once the worker is done with a task whose body raised, the
\* task holds an Error result.
C10_Original ==
    \A t \in raised : Released(t) => IsError(task[t].result)

\* C10 as amended: when a task's body raises, the worker stores the Error
\* result for it unless the task was cancelled before the completion write
\* (then the result is Cancelled); the task is finished and gone from the id
\* map, the counters stay consistent and every worker stays alive; the steps
\* the worker takes for that task change neither the queue nor any other
\* task, and end with the worker back at its wait; every task that is queued
\* when a body has raised is finished eventually.
C10_FailureIsolation ==
    /\ [](\A t \in raised :
            Released(t) =>
               /\ task[t].finished
               /\ task[t].hasResult
               /\ IF task[t].cancelled
                  THEN IsCancelled(task[t].result)
                  ELSE task[t].result = makeErrorResult("what")
               /\ taskMap[task[t].id] # t)
    /\ []PoolConsistent
    /\ [][\A w \in WorkerIds :
             (wpc[w] \in {"run", "fin"} /\ wpc'[w] # wpc[w] /\ wtask[w] \in raised') =>
                /\ tasks' = tasks
                /\ pendingTasks' = pendingTasks
                /\ \A u \in TaskIds \ {wtask[w]} : task'[u] = task[u]
                /\ wpc[w] = "run" =>
                      wpc'[w] = "fin" /\ activeTasks' = activeTasks - 1
                /\ wpc[w] = "fin" => wpc'[w] = "ready"]_vars
    /\ \A t \in TaskIds, u \in TaskIds :
          (t \in raised /\ u \in tasks) ~> task[u].finished

\* C10 witness: in a single-worker pool a task raised and got its Error
\* result, and a task that was queued behind it ran afterwards and got its
\* Ok result.
C10_Witness ==
    /\ SingleWorker
    /\ \E t \in raised, u \in ran \ raised :
          /\ t \in queuedWith[u]
          /\ task[t].result = makeErrorResult("what")
          /\ task[u].result = makeSuccessResult("value")
          /\ Released(t) /\ Released(u)

\* Call i of submitTask was turned away: it returned without pushing its task.
Rejected(i) == spc[i] = "ret" /\ i \notin accepted

\* C11: a submitTask call that takes the pool lock when the pool is stopped,
\* or when a non-zero limit is met by the pending count, returns an error at
\* once and its step changes nothing of the pool: workers, queue, id map,
\* counters, flags, limit and every Task object are as before.  The task of a
\* rejected call is never queued, mapped, popped, run, cancelled or
\* finished, so cancelTask finds under its id only what was there before.
C11_RejectedSubmitNoEffect ==
    /\ [][\A i \in TaskIds :
             ( /\ spc[i] = "lock"
               /\ spc'[i] # "lock"
               /\ stop \/ (queueLimit > 0 /\ pendingTasks >= queueLimit) )
             => /\ spc'[i] = "ret"
                /\ IsError(sret'[i])
                /\ sret'[i].errorMessage =
                      (IF stop THEN "ThreadPool is stopped"
                               ELSE "ThreadPool queue limit reached")
                /\ i \notin accepted'
                /\ UNCHANGED <<workers, tasks, taskMap, stop, paused,
                               pendingTasks, activeTasks, queueLimit, task>>]_vars
    /\ [](\A i \in TaskIds :
             Rejected(i) =>
                /\ i \notin tasks
                /\ i \notin dequeued
                /\ i \notin ran
                /\ \A k \in Ids : taskMap[k] # i
                /\ ~task[i].cancelled
                /\ ~task[i].finished
                /\ ~task[i].hasResult)

\* C11 witness: a call was rejected because the pool was stopped (a resize
\* was under way) and the resize has returned since.
C11_Witness ==
    \E i \in TaskIds :
        /\ Rejected(i)
        /\ sret[i].errorMessage = "ThreadPool is stopped"
        /\ scret = "returned"

\* C12 as stated: between a call of pause() and the next call of resume()
\* no worker pops a task from the ready queue, whatever else is called on
\* the pool in between.
C12_NoDequeueWhilePaused ==
    [][dequeued' # dequeued => ~pauseRequested]_vars

\* C13: pausing changes neither admission nor cancellation.  (a) A
\* submitTask call that takes the pool lock is rejected exactly when the
\* pool is stopped or the limit is reached, and is otherwise pushed, mapped
\* and counted, whether or not the pool is paused.  (b) A cancelTask call
\* that found its id in the map goes on to return true, and can take its
\* last step whether or not the pool is paused.  (c) Once such a call has
\* returned, the task it found is finished with a Cancelled result and the
\* submitTask call blocked on that task can return, paused or not; what it
\* returns is Cancelled.
C13_PauseLeavesSubmitAndCancel ==
    /\ [][\A i \in TaskIds :
             (spc[i] = "lock" /\ spc'[i] # "lock") =>
                IF stop \/ (queueLimit > 0 /\ pendingTasks >= queueLimit)
                THEN spc'[i] = "ret" /\ tasks' = tasks /\ pendingTasks' = pendingTasks
                ELSE /\ spc'[i] = "wait"
                     /\ tasks' = tasks \cup {i}
                     /\ taskMap'[task[i].id] = i
                     /\ pendingTasks' = pendingTasks + 1]_vars
    /\ [][\A k \in Ids :
             (cpc = "idle" /\ cpc' = "fin" /\ cref' = taskMap[k]) =>
                /\ taskMap[k] # NoTask
                /\ task'[taskMap[k]].cancelled]_vars
    /\ [][(cpc = "fin" /\ cpc' = "idle") => cret' = "true"]_vars
    /\ [](cpc = "fin" => ENABLED CancelFinish)
    /\ [](\A t \in TaskIds :
             (task[t].cancelled /\ cref # t) =>
                /\ task[t].finished
                /\ task[t].hasResult
                /\ IsCancelled(task[t].result)
                /\ spc[t] = "wait" => ENABLED SubmitReturn(t)
                /\ spc[t] = "ret" => IsCancelled(sret[t]))

\* C13 witness: the pool is paused, a task is still in the queue, cancelTask
\* has returned true for it and its submitTask call has returned Cancelled.
C13_Witness ==
    /\ paused
    /\ pauseRequested
    /\ cret = "true"
    /\ cpc = "idle"
    /\ \E t \in tasks :
          /\ task[t].cancelled
          /\ spc[t] = "ret"
          /\ IsCancelled(sret[t])

\* C14: a setConcurrency call made while a task is pending or active throws
\* and its step changes nothing: workers, queue, id map, counters, flags,
\* tasks and every thread's position are as before (no worker is woken or
\* told to stop); and a call gets past the test only with both counts zero.
C14_ResizeRefusedNoChange ==
    /\ [][(scret' # scret /\ scret' = "threw") =>
             /\ ctl = "idle"
             /\ pendingTasks > 0 \/ activeTasks > 0
             /\ UNCHANGED <<poolVars, task, submitVars, workerVars, cancelVars,
                            ctl, oldWorkers, threads>>]_vars
    /\ [][(ctl = "idle" /\ ctl' = "scJoin") =>
             pendingTasks = 0 /\ activeTasks = 0]_vars
    /\ [](ctl \in {"scJoin", "scSpawn"} => pendingTasks = 0 /\ activeTasks = 0)

\* C14 witness: setConcurrency has thrown while a worker was executing a
\* task with nothing pending; the worker set is whole and running.
C14_Witness ==
    /\ scret = "threw"
    /\ ctl = "idle"
    /\ pendingTasks = 0
    /\ activeTasks > 0
    /\ ~stop
    /\ workers # {}
    /\ \A w \in workers : wpc[w] \in {"ready", "run", "fin"}

\* C15: when setConcurrency(n) passes its test, (a) every thread of the old
\* set has returned and been joined before the spawn: at the spawn no worker
\* thread exists; (b) the spawn leaves exactly max(1, n) workers, all at
\* their wait, with stop and paused clear, and that stays the size of the
\* worker vector while the call is the last that resized; (c) a submitTask
\* call that takes the lock of the running pool below its limit is accepted,
\* only threads of the current worker set pop tasks, and every accepted
\* call returns.
C15_ResizeReplacesWorkers ==
    /\ [](ctl = "scSpawn" =>
             /\ workers = {}
             /\ oldWorkers = {}
             /\ \A w \in WorkerIds : wpc[w] = "none")
    /\ [][(ctl = "scSpawn" /\ ctl' = "idle") =>
             /\ Cardinality(workers') = (IF requested < 1 THEN 1 ELSE requested)
             /\ \A w \in workers' : wpc'[w] = "ready"
             /\ \A w \in WorkerIds \ workers' : wpc'[w] = "none"
             /\ ~stop' /\ ~paused'
             /\ scret' = "returned"]_vars
    /\ []((ctl = "idle" /\ scret = "returned") =>
             /\ Cardinality(workers) = (IF requested < 1 THEN 1 ELSE requested)
             /\ ~stop)
    /\ [][\A i \in TaskIds :
             ( /\ spc[i] = "lock" /\ spc'[i] # "lock"
               /\ ~stop
               /\ ~(queueLimit > 0 /\ pendingTasks >= queueLimit) )
             => spc'[i] = "wait" /\ i \in tasks']_vars
    /\ [][\A w \in WorkerIds : (wpc[w] # "run" /\ wpc'[w] = "run") => w \in workers]_vars
    /\ \A i \in TaskIds : (spc[i] = "wait") ~> (spc[i] = "ret")

\* C15 witness: setConcurrency(0) has returned, the pool has its one worker
\* and that worker is executing a task.
C15_Witness ==
    /\ scret = "returned"
    /\ ctl = "idle"
    /\ requested = 0
    /\ Cardinality(workers) = 1
    /\ \E w \in workers : wpc[w] = "run" /\ wtask[w] \in accepted

\* C16: (a) the step on which shutdown() returns leaves the pool shut down:
\* no workers, an empty queue and id map, both counters 0, stop and paused
\* false; (b) a shutdown() call that begins on a pool already shut down
\* keeps workers, queue, id map, counters and paused as they are throughout
\* (only stop is raised for the length of the call), and touches no task;
\* (c) every shutdown() call that has begun returns.
C16_ShutdownIdempotent ==
    /\ [][(ctl = "sdClear" /\ ctl' = "idle") => IsShutDown']_vars
    /\ []((ctl \in {"sdJoin", "sdClear"} /\ downBefore) =>
             /\ workers = {}
             /\ tasks = {}
             /\ taskMap = [k \in Ids |-> NoTask]
             /\ pendingTasks = 0
             /\ activeTasks = 0
             /\ ~paused)
    /\ [][(ctl # ctl' /\ (downBefore' \/ (downBefore /\ ctl # "idle"))) =>
             UNCHANGED <<workers, tasks, taskMap, pendingTasks, activeTasks,
                         paused, sequenceCounter, queueLimit, task, workerVars,
                         submitVars>>]_vars
    /\ (ctl = "sdJoin") ~> (ctl = "idle" /\ IsShutDown)

\* C16 witness: a shutdown() call that began on a pool already shut down has
\* returned.
C16_Witness ==
    /\ downBefore
    /\ ctl = "idle"
    /\ IsShutDown

\* C17: a cancelTask(id) call that finds no entry under id returns false and
\* changes nothing: no Task object, no pool state, no other thread; a call
\* that finds an entry sets the cancelled flag of the task found, of no
\* other, leaves the pool as it is and goes on to return true.
C17_CancelFalseIffUntracked ==
    /\ [][(cpc = "idle" /\ <<cpc, cref, cret>>' # <<cpc, cref, cret>>) =>
             IF taskMap[CancelTarget] = NoTask
             THEN /\ cret' = "false"
                  /\ cpc' = "idle"
                  /\ cref' = cref
                  /\ UNCHANGED <<poolVars, task, submitVars, workerVars, ctlVars>>
             ELSE /\ cpc' = "fin"
                  /\ cref' = taskMap[CancelTarget]
                  /\ cret' = cret
                  /\ task' = [task EXCEPT ![taskMap[CancelTarget]].cancelled = TRUE]
                  /\ UNCHANGED <<poolVars, submitVars, workerVars, ctlVars>>]_vars
    /\ [][(cpc = "fin" /\ cpc' = "idle") => cret' = "true"]_vars
    /\ [][cret' # cret =>
             \/ cret' = "false" /\ cpc = "idle" /\ taskMap[CancelTarget] = NoTask
             \/ cret' = "true" /\ cpc = "fin"]_vars

\* C17 witness: cancelTask returned true for a task that was executing, the
\* worker has since removed the task from the id map, and a later
\* cancelTask call with the same id has returned false.
C17_Witness ==
    /\ cret = "false"
    /\ cpc = "idle"
    /\ taskMap[CancelTarget] = NoTask
    /\ \E t \in ran :
          /\ task[t].id = CancelTarget
          /\ task[t].cancelled
          /\ task[t].finished
          /\ Released(t)

\* A worker is executing the body of task t.
Executing(t) == \E w \in WorkerIds : wpc[w] = "run" /\ wtask[w] = t

\* C18 as stated: when task t2 was pushed under the id of a task t1 that was
\* still queued, the id map holds t2 for as long as t2 is queued or
\* executing, so that a following cancelTask(id) finds t2 and sets its flag.
C18_DuplicateIdFindsLater ==
    \A t1 \in accepted, t2 \in accepted :
        ( /\ t1 \in queuedWith[t2]
          /\ task[t1].id = task[t2].id
          /\ t2 \in tasks \/ Executing(t2) )
        => taskMap[task[t2].id] = t2

\* C19 as stated: the values delivered to the progress sink by a finished
\* pipeline never decrease, never exceed 1.0, end with 1.0 and hold 1.0 once.
C19_ProgressReachesOneOnce ==
    ppc = "done" =>
        /\ \A k \in 1..(Len(emitted) - 1) : emitted[k] <= emitted[k + 1]
        /\ \A k \in 1..Len(emitted) : emitted[k] <= One
        /\ Len(emitted) > 0
        /\ emitted[Len(emitted)] = One
        /\ Cardinality({k \in 1..Len(emitted) : emitted[k] = One}) = 1

\* C20: the steps are invoked in definition order, each once, and a step is
\* invoked only when every step before it has returned and been summarised;
\* the k-th summary is {index: k, type: type of step k, result: what step k
\* returned}, k counted from 0; the runnable returns {task: name, steps:
\* summaries} with one summary for every step.
C20_StepsInOrder ==
    /\ calls = [k \in 1..Len(calls) |-> k - 1]
    /\ Len(calls) <= Len(steps)
    /\ Len(results) <= Len(calls)
    /\ Len(calls) <= Len(results) + 1
    /\ ppc = "step" <=> Len(calls) = Len(results) + 1
    /\ results = [k \in 1..Len(results) |->
                     [index |-> k - 1,
                      type |-> steps[k].type,
                      result |-> StepResult(steps[k])]]
    /\ ppc = "done" =>
          /\ summary = [task |-> name, steps |-> results]
          /\ Len(summary.steps) = Len(steps)

\* C20 witness: a pipeline of three steps, not all of one type, has returned.
C20_Witness ==
    /\ ppc = "done"
    /\ Len(steps) = 3
    /\ steps[1].type # steps[2].type
    /\ Len(summary.steps) = 3

\* C21 as stated, its last part: when a step of the pipeline raised, the
\* submit call of the pipeline task returns the Error result carrying the
\* failure.
C21_Original ==
    (failedStep >= 0 /\ spc[1] = "ret") => sret[1] = makeErrorResult("what")

\* C21 as amended: when step k of a pipeline raises, the runnable is left at
\* once: no step after k is ever started, only the steps before k have a
\* summary, nothing more is delivered to the progress sink (the final 1.0
\* included) and no {task, steps} result is produced; the submit call
\* returns the Error result carrying the failure, unless the task was
\* cancelled, and then it returns a Cancelled result.
C21_PipelineAborts ==
    /\ [](failedStep >= 0 =>
            /\ ppc = "raised"
            /\ index = failedStep
            /\ \A k \in 1..Len(calls) : calls[k] <= failedStep
            /\ Len(results) = failedStep
            /\ summary = ""
            /\ spc[1] = "ret" =>
                  IF task[1].cancelled
                  THEN IsCancelled(sret[1])
                  ELSE sret[1] = makeErrorResult("what"))
    /\ [][failedStep >= 0 =>
             /\ emitted' = emitted
             /\ calls' = calls
             /\ results' = results
             /\ summary' = summary]_vars

\* C21 witness: the second of three steps raised after the pipeline had
\* delivered progress, and the submit call returned the Error result.
C21_Witness ==
    /\ Len(steps) = 3
    /\ failedStep = 1
    /\ calls = <<0, 1>>
    /\ emitted # <<>>
    /\ spc[1] = "ret"
    /\ sret[1] = makeErrorResult("what")

\* A step field that is an indirection object {fromPayload: path, default?}.
IsIndirection(value) ==
    /\ value.t = "obj"
    /\ "fromPayload" \in DOMAIN value.o
    /\ value.o["fromPayload"].t = "str"

\* The keys a dotted path names, outermost first.
KeysOf(path) ==
    CASE path = "u.m" -> <<"u", "m">>
      [] path = "u..m" -> <<"u", "m">>
      [] path = ".n" -> <<"n">>
      [] OTHER -> <<path>>

\* The value found in `json` under the keys: <<v>>, or <<>> when a key is
\* absent or a value on the way is not an object.
RECURSIVE At(_, _)
At(json, keys) ==
    IF keys = <<>>
    THEN <<json>>
    ELSE IF json.t = "obj" /\ Head(keys) \in DOMAIN json.o
    THEN At(json.o[Head(keys)], Tail(keys))
    ELSE <<>>

\* The payload of the createTask call, and the indirection fields of step k
\* of the definition it copied; those whose path is absent from the payload;
\* those among them that have no default.
CallPayload == IF payloadJson.t = "empty" THEN JObj(EmptyObject) ELSE payloadJson
Refs(k) ==
    {f \in DOMAIN definition.steps[k].o \ {"type"} :
        IsIndirection(definition.steps[k].o[f])}
PathOf(k, f) == definition.steps[k].o[f].o["fromPayload"].s
Absent(k) == {f \in Refs(k) : At(CallPayload, KeysOf(PathOf(k, f))) = <<>>}
Missing(k) == {f \in Absent(k) : "default" \notin DOMAIN definition.steps[k].o[f].o}

\* The createTask call has ended, after it found the definition and parsed
\* the payload.
CallEnded ==
    /\ rpc \in {"returned", "threw"}
    /\ definition # <<>>
    /\ payloadJson.t # "bad"

\* C22 as stated, its failure case: a field whose path is absent and that has
\* no default makes createTask fail with the missing-required-field error.
C22_Original ==
    (CallEnded /\ \E k \in 1..Len(definition.steps) : Missing(k) # {}) =>
        /\ rpc = "threw"
        /\ cerr[1] = "Payload missing required field"

\* C22 as amended: createTask resolves every indirection field of every step:
\* when it returns a runnable, each such field of each step function holds
\* the payload's value if the path exists in the payload (also when a default
\* is given) and the default otherwise; when some field's path is absent and
\* it has no default, createTask fails, no runnable exists and no step is
\* ever executed, and the error is the missing-required-field error of the
\* first such step unless the validation of an earlier step's descriptor
\* failed first.
C22_FieldResolution ==
    CallEnded =>
        LET n == Len(definition.steps)
            unresolvable == {k \in 1..n : Missing(k) # {}}
            Expected(k, f) ==
                LET at == At(CallPayload, KeysOf(PathOf(k, f)))
                IN  IF at # <<>> THEN at[1] ELSE definition.steps[k].o[f].o["default"]
        IN  /\ rpc = "returned" =>
                /\ ppc # "none"
                /\ Len(steps) = n
                /\ \A k \in 1..n : \A f \in Refs(k) :
                      /\ f = "message" => steps[k].message = Param(Expected(k, f))
                      /\ f = "iterations" =>
                            to_string(steps[k].iterations) = Param(Expected(k, f))
            /\ unresolvable # {} =>
                /\ rpc = "threw"
                /\ ppc = "none"
                /\ steps = <<>>
                /\ calls = <<>>
                /\ emitted = <<>>
                /\ LET first == CHOOSE k \in unresolvable :
                                    \A j \in unresolvable : k <= j
                   IN  \/ /\ cerr[1] = "Payload missing required field"
                          /\ \E f \in Missing(first) : cerr[2] = PathOf(first, f)
                       \/ /\ cerr = <<"iterations", "must be a number">>
                          /\ \E j \in 1..(first - 1) :
                                definition.steps[j].o["type"].s = "HEAVY_LOOP"

\* C22 witness: the first step took its message from the payload although
\* the field has a default, the second step's path is absent from the
\* payload and has no default, and createTask failed with the
\* missing-required-field error for that path.
C22_Witness ==
    /\ CallEnded
    /\ Len(definition.steps) = 2
    /\ Refs(1) = {"message"}
    /\ Absent(1) = {}
    /\ "default" \in DOMAIN definition.steps[1].o["message"].o
    /\ Missing(2) = {"iterations"}
    /\ rpc = "threw"
    /\ cerr = <<"Payload missing required field", "n">>
    /\ ppc = "none"

\* A step that is an object holding a string under `type`.
TypedStep(step) ==
    /\ step.t = "obj"
    /\ "type" \in DOMAIN step.o
    /\ step.o["type"].t = "str"

\* A register call the specification turns away: the name is empty, the text
\* is not a structured object, it has no non-empty list of steps, or one of
\* its steps lacks a string type.
Refused(nm, text) ==
    \/ nm = ""
    \/ text.t # "obj"
    \/ "steps" \notin DOMAIN text.o
    \/ text.o["steps"].t # "arr"
    \/ text.o["steps"].a = <<>>
    \/ \E k \in 1..Len(text.o["steps"].a) : ~TypedStep(text.o["steps"].a[k])

\* C23: a register call with an empty name, with a text that is not a
\* structured object, without a non-empty list of steps, or with a step
\* lacking a string type fails and leaves the registry as it was, whatever
\* was stored under the name included; a createTask call that finds the
\* name afterwards copies exactly the definition the registry holds.
C23_FailedRegisterNoEffect ==
    [][/\ (rcall' # rcall /\ Refused(rcall'[1], rcall'[2])) =>
            /\ regret' = "threw"
            /\ tasks_' = tasks_
            /\ UNCHANGED <<rpc, definition, name, steps, ppc>>
       /\ (rpc = "idle" /\ rpc' = "copied") =>
            /\ HasTask(tasks_, cname')
            /\ definition' = tasks_[cname']]_vars

\* C23 witness: with a definition of two steps in place under "greet", a
\* register call for "greet" whose second step has no type failed, and a
\* createTask call returned a runnable of the two steps of the definition
\* in place.
C23_Witness ==
    /\ regret = "threw"
    /\ rcall[1] = "greet"
    /\ rcall[2].t = "obj"
    /\ "steps" \in DOMAIN rcall[2].o
    /\ rcall[2].o["steps"].t = "arr"
    /\ Len(rcall[2].o["steps"].a) = 2
    /\ HasTask(tasks_, "greet")
    /\ Len(tasks_["greet"].steps) = 2
    /\ rpc = "returned"
    /\ definition = tasks_["greet"]
    /\ Len(steps) = 2

\* C24: while createTask copies a definition it holds the registry's lock
\* and what it has copied is the beginning of the list stored under the
\* name; the copy it ends with is the complete list stored at that moment,
\* there having been no change of the registry since the lookup; a lookup
\* that finds no entry fails as unknown; the runnable is built from the copy,
\* step for step; and a register or unregister call changes neither a copy
\* already taken nor a runnable already created.
C24_RegistryAtomic ==
    /\ [](rpc = "copying" =>
            /\ mutex_ = "createTask"
            /\ HasTask(tasks_, cname)
            /\ definition.steps =
                  SubSeq(tasks_[cname].steps, 1, Len(definition.steps)))
    /\ [][/\ rpc = "copying" => tasks_' = tasks_
          /\ (rpc = "copying" /\ rpc' = "copied") => definition' = tasks_[cname]
          /\ (rpc = "idle" /\ rpc' = "threw") =>
                /\ ~HasTask(tasks_, cname')
                /\ cerr' = <<"Unknown custom task", cname'>>
          /\ (rpc = "copied" /\ rpc' = "returned") =>
                /\ Len(steps') = Len(definition.steps)
                /\ \A k \in 1..Len(steps') :
                      steps'[k].type = definition.steps[k].o["type"].s
          /\ tasks_' # tasks_ => UNCHANGED <<rpc, definition, name, steps, ppc>>
          /\ steps' # steps => (rpc = "copied" /\ rpc' = "returned")]_vars

\* C24 witness: a runnable of three steps was created from the definition
\* stored under "greet" and has run to its end, and the registry now holds
\* another definition under that name.
C24_Witness ==
    /\ rpc = "returned"
    /\ ppc = "done"
    /\ Len(definition.steps) = 3
    /\ Len(summary.steps) = 3
    /\ HasTask(tasks_, cname)
    /\ tasks_[cname] # definition

\* No two tasks that were ever pushed on the queue carry the same id.
UniqueIds == \A i \in accepted, j \in accepted : i # j => task[i].id # task[j].id

\* C25: between critical sections of the pool lock, the pending count is the
\* number of tasks in the ready queue and the active count the number of
\* workers that have dequeued a task and not yet done their bookkeeping
\* after its execution; neither is ever negative; and when no id was used
\* twice, the id map holds, under each task's id, exactly the tasks that are
\* queued or executing.
C25_Bookkeeping ==
    /\ pendingTasks = Cardinality(tasks)
    /\ activeTasks = Cardinality({w \in WorkerIds : wpc[w] = "run"})
    /\ pendingTasks >= 0
    /\ activeTasks >= 0
    /\ UniqueIds =>
          /\ \A k \in Ids :
                taskMap[k] # NoTask =>
                   /\ task[taskMap[k]].id = k
                   /\ taskMap[k] \in tasks \/ Executing(taskMap[k])
          /\ \A t \in TaskIds :
                (t \in tasks \/ Executing(t)) => taskMap[task[t].id] = t

\* C25 witness: while a shutdown call waits for the workers, with ids used
\* once, one task is executing and another is queued; the map holds both and
\* each counter is one.
C25_Witness ==
    /\ UniqueIds
    /\ Executing(1)
    /\ tasks = {2}
    /\ taskMap[task[1].id] = 1
    /\ taskMap[task[2].id] = 2
    /\ pendingTasks = 1
    /\ activeTasks = 1
    /\ ctl = "sdJoin"

\* C26: in a pool that has a worker, a task that is in the ready queue while
\* the pool is neither paused nor stopped (as it is after resume()) leaves the
\* queue through a worker's dequeue, unless the pool is paused again or shut
\* down first; and no worker stays asleep for ever while the pool is neither
\* paused nor stopped and the queue is not empty.
C26_NoLostWakeup ==
    /\ \A t \in TaskIds :
          (t \in tasks /\ ~paused /\ ~stop /\ workers # {})
             ~> (t \in dequeued \/ paused \/ stop)
    /\ \A w \in WorkerIds :
          (wpc[w] = "sleep" /\ ~paused /\ ~stop /\ tasks # {})
             ~> (wpc[w] # "sleep" \/ paused \/ stop \/ tasks = {})

\* C26 witness: in a pool of two workers that was never shut down and is not
\* paused, both tasks were dequeued and each worker is executing one.
C26_Witness ==
    /\ ~paused /\ ~stop
    /\ workers = {1, 2}
    /\ dequeued = {1, 2}
    /\ Executing(1) /\ Executing(2)
    /\ ctl = "idle"

\* Task t was finished while a worker is executing its body: only cancelTask
\* does that.
CancelledExecuting(t) == Executing(t) /\ task[t].finished

\* No other task was pushed under the id of t.
SoleUser(t) == \A u \in accepted \ {t} : task[u].id # task[t].id

C28_ShutdownDrainsQueue ==
    /\ [][(ctl = "sdJoin" /\ ctl' = "sdClear" /\ workers # {}) =>
            /\ tasks = {} /\ tasks' = {}
            /\ pendingTasks = 0
            /\ \A t \in accepted :
                  /\ t \in dequeued
                  /\ task[t].finished
                  /\ task[t].hasResult
                  /\ t \in ran \/ IsCancelled(task[t].result)
                  /\ spc[t] \in {"wait", "ret"}]_vars
    /\ [][ctl = "sdClear" => stop /\ tasks' \subseteq tasks]_vars

C28_Witness ==
    /\ ctl = "sdClear"
    /\ pauseRequested
    /\ accepted = TaskIds
    /\ tasks = {}
    /\ \E t \in accepted : t \in ran /\ spc[t] = "wait"
    /\ \E t \in accepted : t \notin ran /\ IsCancelled(task[t].result)

\* A task that cancelTask marked while it sits in the ready queue.
QueuedCancelled(t) == t \in tasks /\ task[t].cancelled

InFlight(u) == u \in tasks \/ Executing(u)

\* This step is a worker's erase for task t: the pop of a cancelled t
\* (lines 37-38) or the end of t's body (lines 72-76).
ErasedBy(t) ==
    \/ t \in tasks /\ t \notin tasks' /\ ShortCircuits(t)
    \/ \E w \in WorkerIds : wpc[w] = "run" /\ wtask[w] = t /\ wpc'[w] = "fin"

\* C30: with two tasks in flight under one id, the worker that finishes or
\* short-circuits one of them removes the id's map entry, whichever of the
\* two it held, and the other stays in flight.  An absent entry comes back
\* only with a new push under the id.  While the entry is absent, a
\* cancel(id) returns false, and a task in flight that the map does not
\* hold is never marked cancelled.
C30_TwinLosesEntry ==
    /\ [][\A t \in accepted, u \in accepted :
            (t # u /\ task[t].id = task[u].id /\ InFlight(u) /\ ErasedBy(t)) =>
                /\ taskMap'[task[u].id] = NoTask
                /\ InFlight(u)']_vars
    /\ [][\A k \in Ids :
            (taskMap[k] = NoTask /\ taskMap'[k] # NoTask) =>
                taskMap'[k] \in accepted' \ accepted]_vars
    /\ [][\A u \in accepted :
            (InFlight(u) /\ Find(task[u].id) = NoTask /\ task[u].id = CancelTarget
             /\ cpc = "idle") =>
                /\ cpc' = "idle"
                /\ cret' # cret => cret' = "false"]_vars
    /\ [][\A u \in accepted :
            (InFlight(u) /\ Find(task[u].id) # u) =>
                task'[u].cancelled = task[u].cancelled]_vars

\* Task u was queued when t was pushed under the same id; t was cancelled
\* and short-circuited, which removed the entry; u is still executing,
\* unmarked, and the last cancel(id) returned false.
C30_Witness ==
    \E t \in accepted, u \in accepted :
        /\ t # u /\ task[t].id = task[u].id /\ task[t].id = CancelTarget
        /\ u \in queuedWith[t]
        /\ t \in dequeued /\ t \notin ran /\ task[t].cancelled
        /\ Executing(u) /\ ~task[u].cancelled /\ ~task[u].finished
        /\ Find(task[u].id) = NoTask
        /\ cpc = "idle" /\ cret = "false"

\* shutdown() has returned and no setConcurrency succeeded since: the pool
\* has no worker and no resize or teardown is under way.
AfterShutdown == ctl = "idle" /\ workers = {}

\* C31: after shutdown() has returned and before a successful
\* setConcurrency, the stop flag is clear and a submit is not rejected as
\* stopped: unless the queue limit is reached it is pushed on the queue of
\* a pool without workers.  Nothing is dequeued while the pool has no
\* worker, a submit call returns only once its task is finished, and a task
\* that was never dequeued is finished only by cancelTask.  While a task is
\* queued (cancelled or not) setConcurrency changes nothing; the queue of a
\* pool without workers shrinks only in shutdown's final clear, and workers
\* are spawned only against an empty queue.
C31_SubmitAfterShutdown ==
    /\ [](AfterShutdown => ~stop)
    /\ [][\A i \in TaskIds :
            (AfterShutdown /\ spc[i] = "lock" /\ spc'[i] # "lock") =>
                /\ sret'[i] # makeErrorResult("ThreadPool is stopped")
                /\ ~LimitReached(queueLimit, pendingTasks) =>
                      /\ i \in tasks' /\ i \in accepted'
                      /\ spc'[i] = "wait"
                      /\ workers' = {}]_vars
    /\ [][workers = {} => dequeued' = dequeued]_vars
    /\ [][\A i \in TaskIds :
            (spc[i] = "wait" /\ spc'[i] = "ret") => task[i].finished]_vars
    /\ [](\A t \in accepted :
            (t \notin dequeued /\ task[t].finished) =>
                task[t].cancelled /\ IsCancelled(task[t].result))
    /\ [][(ctl = "idle" /\ tasks # {}) =>
            ctl' \notin {"scJoin", "scSpawn"} /\ workers' = workers]_vars
    /\ [][(workers = {} /\ ~(tasks \subseteq tasks')) =>
            ctl = "sdClear" /\ ctl' = "idle"]_vars
    /\ [][(workers = {} /\ workers' # {}) =>
            tasks = {} /\ pendingTasks = 0]_vars

\* A task ran and the pool was shut down; the next task was pushed on the
\* queue of the worker-less pool, a setConcurrency call threw, and the
\* submit call returned Cancelled after cancel(id), with the task still
\* queued.
C31_Witness ==
    \E t \in accepted, u \in accepted :
        /\ AfterShutdown
        /\ u \in ran /\ task[u].finished
        /\ t \in tasks /\ t \notin dequeued
        /\ task[t].cancelled
        /\ spc[t] = "ret" /\ IsCancelled(sret[t])
        /\ scret = "threw"
        /\ pendingTasks = 1

\* A successful setConcurrency has set the stop flag and has not yet spawned
\* the new workers.
ResizeWindow == ctl \in {"scJoin", "scSpawn"}

\* C32: from the moment a successful setConcurrency sets the stop flag
\* until it spawns the new workers, the stop flag is set and the queue is
\* empty; a submit that takes the pool lock in that window returns the
\* "ThreadPool is stopped" error and pushes nothing, and the spawn finds an
\* empty queue.
C32_ResizeRejectsSubmit ==
    /\ [](ResizeWindow => stop /\ tasks = {} /\ pendingTasks = 0)
    /\ [][\A i \in TaskIds :
            (ResizeWindow /\ spc[i] = "lock" /\ spc'[i] # "lock") =>
                /\ sret'[i] = makeErrorResult("ThreadPool is stopped")
                /\ spc'[i] = "ret"
                /\ i \notin accepted'
                /\ tasks' = {}]_vars
    /\ [][(ctl = "scSpawn" /\ ctl' = "idle") =>
            /\ tasks' = {} /\ pendingTasks' = 0
            /\ Cardinality(workers') = threads]_vars

\* The first setConcurrency call is joining the old workers, and a submit
\* call has returned the stopped error.
C32_Witness ==
    /\ ctl = "scJoin"
    /\ scret = "none"
    /\ \E i \in TaskIds :
          /\ spc[i] = "ret"
          /\ sret[i] = makeErrorResult("ThreadPool is stopped")
          /\ i \notin accepted

\* The worker threads that exist and have not returned.
LiveThreads == {w \in WorkerIds : wpc[w] \notin {"none", "exited"}}

\* Both setConcurrency calls have returned.
BothReturned == ctl = "idle" /\ scret = "returned" /\ ctlB = "returned"

\* The thread count of the call that returned last.
LastRequested == IF lastB THEN ClampThreads(requestedB) ELSE ClampThreads(requested)

\* C33 as stated: two setConcurrency calls running concurrently on a
\* quiescent pool both return, and once both have returned the live worker
\* threads are those of the workers vector and their number is the thread
\* count requested by the call that returned last.
C33_ConcurrentResize ==
    /\ [](BothReturned =>
            /\ LiveThreads = workers
            /\ Cardinality(LiveThreads) = LastRequested)
    /\ (ctl \in {"scJoin", "scSpawn"}) ~> (ctl = "idle")
    /\ (ctlB \in {"scJoin", "scSpawn"}) ~> (ctlB = "returned")

====
